---- MODULE Spec2Model ----
(***************************************************************************)
(* Guardrail evaluation pipeline of guardrails_integration.                *)
(*                                                                         *)
(* Strings are sequences of tokens (a token is an atomic piece of text     *)
(* such as "regex", "_", "/"), so that prefix, suffix, split and           *)
(* lower-casing are computed rather than assumed.  Python's None is the    *)
(* one-token sequence None; a dict is a function from a finite set of keys *)
(* to values, a missing key reading as None (dict.get).                    *)
(***************************************************************************)
EXTENDS Naturals, Sequences, FiniteSets, TLC

----------------------------------------------------------------------------
(* Python values *)

None == <<"<None>">>

\* marks a key that a dict does not hold
Absent == <<"<absent>">>

EmptyStr == <<>>

\* truth value of a str / None in a Python condition
Truthy(x) == x # None /\ x # Absent /\ x # <<>>

\* Python's `a or b`
Or(a, b) == IF Truthy(a) THEN a ELSE b

\* Keys a validator configuration or a parameter set is read or written by.
Keys == {"type", "scope", "hub_id", "pattern", "Pattern", "regex", "on_fail", "tag", "name"}

\* A dict over Keys: each key holds a string, None, or is Absent.
EmptyDict == [k \in Keys |-> Absent]

\* `k in d`
In(d, k) == d[k] # Absent

\* dict.get(k)
Get(d, k) == IF In(d, k) THEN d[k] ELSE None

\* dict.get(k, default)
GetDefault(d, k, default) == IF In(d, k) THEN d[k] ELSE default

\* d[k] = val
Put(d, k, val) == [d EXCEPT ![k] = val]

\* dict.setdefault(k, val)
SetDefault(d, k, val) == IF In(d, k) THEN d ELSE Put(d, k, val)

\* the keys d holds
KeysOf(d) == {k \in DOMAIN d : In(d, k)}

----------------------------------------------------------------------------
(* str methods on token sequences *)

\* str.lower(), token by token
LowerTok(t) ==
    CASE t = "Input" -> "input"
      [] t = "OUTPUT" -> "output"
      [] t = "Both" -> "both"
      [] t = "Regex" -> "regex"
      [] t = "Foo" -> "foo"
      [] t = "Bar" -> "bar"
      [] OTHER -> t

Lower(s) == [i \in 1..Len(s) |-> LowerTok(s[i])]

IsSpace(t) == t = " "

RECURSIVE LStrip(_)
LStrip(s) == IF s # <<>> /\ IsSpace(Head(s)) THEN LStrip(Tail(s)) ELSE s

RECURSIVE RStrip(_)
RStrip(s) ==
    IF s # <<>> /\ IsSpace(s[Len(s)]) THEN RStrip(SubSeq(s, 1, Len(s) - 1)) ELSE s

\* str.strip()
Strip(s) == RStrip(LStrip(s))

\* str.startswith(p)
StartsWith(s, p) == Len(p) <= Len(s) /\ SubSeq(s, 1, Len(p)) = p

\* str.endswith(p)
EndsWith(s, p) == Len(p) <= Len(s) /\ SubSeq(s, Len(s) - Len(p) + 1, Len(s)) = p

\* str.split(sep)[-1] for a one-token separator
RECURSIVE SplitLast(_, _)
SplitLast(s, sep) ==
    IF \E i \in 1..Len(s) : s[i] = sep
    THEN SplitLast(SubSeq(s, (CHOOSE i \in 1..Len(s) : s[i] = sep) + 1, Len(s)), sep)
    ELSE s

\* str.replace(a, b) for one-token a, b
Replace(s, a, b) == [i \in 1..Len(s) |-> IF s[i] = a THEN b ELSE s[i]]

\* `p in s` for strings: p occurs as a contiguous piece of s
Contains(s, p) == \E i \in 0..(Len(s) - Len(p)) : SubSeq(s, i + 1, i + Len(p)) = p

----------------------------------------------------------------------------
(* String literals of the source *)

s_both == <<"both">>

s_input == <<"input">>

s_output == <<"output">>

s_regex == <<"regex">>

s_regex_match == <<"regex", "_", "match">>

s_slash_regex == <<"/", "regex">>

s_guardrails_slash == <<"guardrails", "/">>

s_exception == <<"exception">>

s_noop == <<"noop">>

s_unknown == <<"unknown">>

s_detect_pii == <<"detect", "_", "pii">>

s_valid_url == <<"valid", "_", "url">>

s_blocklist == <<"blocklist">>

s_pii == <<"pii">>

s_valid_json == <<"valid", "_", "json">>

s_toxic_language == <<"toxic", "_", "language">>

s_competitor_check == <<"competitor", "_", "check">>

----------------------------------------------------------------------------
(* gr_integration/hub_adapter.py: helpers nested in GuardrailsHubAdapter.run *)

\* A validator configuration is [top |-> dict, params |-> dict]: its top-level
\* entries and its nested "params" mapping (all Absent when there is none).

\* a filter that lets every validator through under runtime scope both
_scope_matches_any_under_both(v_scope, runtime_scope) ==
    LET v == Lower(Strip(Or(v_scope, s_both)))
        rs == Lower(Strip(Or(runtime_scope, s_both)))
    IN  v = s_both \/ v = rs \/ rs = s_both

_scope_matches(v_scope, runtime_scope) ==
    LET v == Lower(Strip(Or(v_scope, s_both)))
        rs == Lower(Strip(Or(runtime_scope, s_both)))
    IN  v = s_both \/ v = rs

\* the class object found under `name` in a namespace
ClassOf(where, name) == <<"<class>", where>> \o name

\* for name in names: cls = getattr(mod, name, None); if cls: return cls
RECURSIVE FirstAttr(_, _, _)
FirstAttr(ns, names, where) ==
    IF Len(names) = 0 THEN None
    ELSE IF Head(names) \in ns THEN ClassOf(where, Head(names))
    ELSE FirstAttr(ns, Tail(names), where)

candidates_for(slug_or_type) ==
    LET s == Replace(Lower(Strip(Or(slug_or_type, EmptyStr))), "-", "_")
        last == SplitLast(s, "/")
        base == SplitLast(last, ":")
    IN  << <<"guardrails", ".", "validators", ".">> \o base,
           <<"guardrails", ".", "hub", ".">> \o base,
           base >>

\* The catalog the resolver looks into:
\*   hub_ok, validators_ok   guardrails.hub / guardrails.validators import
\*   hub, validators         the names each of them defines
\*   plugins                 importable guardrails_grhub_* modules
\*   has_load, load_raises, loadable   guardrails.hub.load and what it returns
_resolve_hub_cls(v, cat) ==
    LET type_raw == Lower(Strip(Or(Get(v.top, "type"), EmptyStr)))
        hub_id == Lower(Strip(Or(Get(v.top, "hub_id"), EmptyStr)))
        names == IF Truthy(hub_id) THEN candidates_for(hub_id)
                 ELSE candidates_for(type_raw)
        fromHub == IF cat.hub_ok THEN FirstAttr(cat.hub, names, "hub") ELSE None
        fromValidators ==
            IF cat.validators_ok THEN FirstAttr(cat.validators, names, "validators")
            ELSE None
        base_slug ==
            Replace(SplitLast(Lower(Strip(Or(hub_id, Or(type_raw, EmptyStr)))), "/"),
                    "-", "_")
        plugin_mod_name == <<"guardrails_grhub_">> \o base_slug
        fromPlugin ==
            IF \E p \in cat.plugins : p.name = plugin_mod_name
            THEN FirstAttr((CHOOSE p \in cat.plugins : p.name = plugin_mod_name).attrs,
                           names, "plugin")
            ELSE None
        target == Or(hub_id, s_guardrails_slash \o base_slug)
        fromLoad ==
            IF /\ cat.hub_ok
               /\ Truthy(hub_id) \/ Truthy(type_raw)
               /\ cat.has_load
               /\ ~cat.load_raises
               /\ target \in cat.loadable \/ (<<"hub://">> \o target) \in cat.loadable
            THEN ClassOf("load", target)
            ELSE None
    IN  IF fromHub # None THEN fromHub
        ELSE IF fromValidators # None THEN fromValidators
        ELSE IF fromPlugin # None THEN fromPlugin
        ELSE fromLoad

\* regex-shaped by type only
IsRegexShaped_type_only(t, hub_id) == t \in {s_regex, s_regex_match}

\* type in {"regex", "regex_match"} or hub_id ends in regex_match, /regex, regex
IsRegexShaped(t, hub_id) ==
    \/ t \in {s_regex, s_regex_match}
    \/ EndsWith(hub_id, s_regex_match)
    \/ EndsWith(hub_id, s_slash_regex)
    \/ EndsWith(hub_id, s_regex)

\* re: the patterns that do not compile, and re.search for literal patterns
InvalidPatterns == {<<"(">>, <<"[">>}

RegexCompiles(pattern) == pattern \notin InvalidPatterns

RegexSearch(pattern, txt) == Contains(txt, pattern)

----------------------------------------------------------------------------
(* What guard.validate returns, and how run reads it *)

TextKeys == <<"text", "validated_text", "output">>

ValidKeys == <<"valid", "is_valid", "passed", "ok", "success">>

Range(seq) == {seq[j] : j \in 1..Len(seq)}

\* A delegate result:
\*   shape   "tuple" | "dict" | "str" | "other" (any other object)
\*   len     the tuple's length
\*   first   the tuple's first element or the bare string (None: not a str)
\*   second  the tuple's second element: "True", "False", or "NotBool"
\*   txt     the mapping's text-like entries (a string, None or Absent)
\*   val     the mapping's validity-like entries: "True", "False" or "Absent"
NoTxt == [k \in Range(TextKeys) |-> Absent]

NoVal == [k \in Range(ValidKeys) |-> "Absent"]

TupleResult(n, first, second) ==
    [shape |-> "tuple", len |-> n, first |-> first, second |-> second,
     txt |-> NoTxt, val |-> NoVal]

DictResult(txt, val) ==
    [shape |-> "dict", len |-> 0, first |-> None, second |-> "NotBool",
     txt |-> txt, val |-> val]

StrResult(str) ==
    [shape |-> "str", len |-> 0, first |-> str, second |-> "NotBool",
     txt |-> NoTxt, val |-> NoVal]

OtherResult ==
    [shape |-> "other", len |-> 0, first |-> None, second |-> "NotBool",
     txt |-> NoTxt, val |-> NoVal]

\* for key in (...): if key in result: is_valid = bool(result.get(key)); break
RECURSIVE FirstValidity(_, _)
FirstValidity(val, keys) ==
    IF Len(keys) = 0 THEN TRUE
    ELSE IF val[Head(keys)] # "Absent" THEN val[Head(keys)] = "True"
    ELSE FirstValidity(val, Tail(keys))

\* result.get("text") or result.get("validated_text") or result.get("output")
\*   or sanitized_text
DictText(txt, sanitized_text) ==
    Or(Get(txt, "text"),
       Or(Get(txt, "validated_text"), Or(Get(txt, "output"), sanitized_text)))

\* a reading that takes the text of a tuple and not its validity
ParseResult_tuple_always_valid(result, sanitized_text) ==
    CASE result.shape = "tuple" ->
            [text |-> IF result.len >= 1 /\ result.first # None
                      THEN result.first ELSE sanitized_text,
             is_valid |-> TRUE]
      [] result.shape = "dict" ->
            [text |-> DictText(result.txt, sanitized_text),
             is_valid |-> FirstValidity(result.val, ValidKeys)]
      [] result.shape = "str" ->
            [text |-> result.first, is_valid |-> TRUE]
      [] OTHER ->
            [text |-> sanitized_text, is_valid |-> TRUE]

\* a reading that empties the text when the result carries none
ParseResult_other_clears(result, sanitized_text) ==
    CASE result.shape = "tuple" ->
            [text |-> IF result.len >= 1 /\ result.first # None
                      THEN result.first ELSE sanitized_text,
             is_valid |-> IF result.len >= 2 /\ result.second # "NotBool"
                          THEN result.second = "True" ELSE TRUE]
      [] result.shape = "dict" ->
            [text |-> DictText(result.txt, sanitized_text),
             is_valid |-> FirstValidity(result.val, ValidKeys)]
      [] result.shape = "str" ->
            [text |-> result.first, is_valid |-> TRUE]
      [] OTHER ->
            [text |-> EmptyStr, is_valid |-> TRUE]

\* hub_adapter.py 269-290: (sanitized_text, is_valid) read from the result
ParseResult(result, sanitized_text) ==
    CASE result.shape = "tuple" ->
            [text |-> IF result.len >= 1 /\ result.first # None
                      THEN result.first ELSE sanitized_text,
             is_valid |-> IF result.len >= 2 /\ result.second # "NotBool"
                          THEN result.second = "True" ELSE TRUE]
      [] result.shape = "dict" ->
            [text |-> DictText(result.txt, sanitized_text),
             is_valid |-> FirstValidity(result.val, ValidKeys)]
      [] result.shape = "str" ->
            [text |-> result.first, is_valid |-> TRUE]
      [] OTHER ->
            [text |-> sanitized_text, is_valid |-> TRUE]

----------------------------------------------------------------------------
(* hub_adapter.py 176-306: the body of the loop over validators_config *)

Reserved == {"type", "scope", "hub_id", "pattern", "on_fail", "params"}

Violation(v, params, error) ==
    [type |-> Or(Get(v.top, "type"), s_unknown),
     scope |-> Or(Get(v.top, "scope"), s_both),
     params |-> params,
     error |-> error]

\* {"on_fail": params.get("on_fail")}
OnFailOnly(params) == Put(EmptyDict, "on_fail", Get(params, "on_fail"))

\* pattern = v.get("pattern") or v.get("Pattern") or params.get("pattern")
\*           or params.get("regex") or ""
PatternOf(v) ==
    Or(Get(v.top, "pattern"),
       Or(Get(v.top, "Pattern"),
          Or(Get(v.params, "pattern"), Or(Get(v.params, "regex"), EmptyStr))))

\* the parameter set handed to Guard().use (lines 181-206)
BuildParams(v, regexy) ==
    LET p1 == IF regexy THEN Put(v.params, "pattern", PatternOf(v)) ELSE v.params
        p2 == SetDefault(p1, "on_fail", Or(Get(v.top, "on_fail"), s_exception))
    IN  [k \in Keys |->
            IF k \notin Reserved /\ In(v.top, k) /\ ~In(p2, k) THEN v.top[k] ELSE p2[k]]

\* a delegate exception that always counts as invalid
ExceptionFlag_always(params) == TRUE

\* a delegate exception that never counts as invalid
ExceptionFlag_never(params) == FALSE

\* invalid_flags.append(params.get("on_fail", "exception") != "noop")
ExceptionFlag(params) == GetDefault(params, "on_fail", s_exception) # s_noop

\* a target that is the resolved class or nothing
Target_class_only(cls, v) == cls

\* target = cls or (v.get("hub_id") or v.get("type"))
Target(cls, v) ==
    IF cls # None THEN cls
    ELSE IF Truthy(Get(v.top, "hub_id")) THEN Get(v.top, "hub_id")
    ELSE Get(v.top, "type")

\* One iteration for an in-scope validator v on the current text `cur`;
\* `out` is what Guard().use(target, **params).validate(cur) does if reached:
\* [raises |-> BOOLEAN, result |-> a delegate result].
\* Yields the new text, the violations and flags appended, and what happened.
ValidatorStep(v, cur, cat, out) ==
    LET cls == _resolve_hub_cls(v, cat)
        t == Lower(Strip(Or(Get(v.top, "type"), EmptyStr)))
        hub_id == Lower(Strip(Or(Get(v.top, "hub_id"), EmptyStr)))
        regexy == IsRegexShaped(t, hub_id)
        params == BuildParams(v, regexy)
        target == Target(cls, v)
        pattern == Or(Get(params, "pattern"), EmptyStr)
        parsed == ParseResult(out.result, cur)
        step(kind, txt, viols, flag, invoked) ==
            [kind |-> kind, text |-> txt, violations |-> viols, flag |-> flag,
             invoked |-> invoked, resolved |-> cls # None, params |-> params]
    IN  IF regexy /\ ~Truthy(PatternOf(v))
        THEN step("missing_pattern", cur,
                  <<Violation(v, OnFailOnly(v.params), "validator_missing_pattern")>>,
                  TRUE, FALSE)
        ELSE IF ~Truthy(target)
        THEN step("not_found", cur,
                  <<Violation(v, params, "validator_not_found")>>, TRUE, FALSE)
        ELSE IF cls = None /\ StartsWith(target, s_guardrails_slash) /\ regexy
        THEN IF ~RegexCompiles(pattern)
             THEN step("compile_error", cur,
                       <<Violation(v, OnFailOnly(params),
                                   "validator_regex_compile_error: re.error")>>,
                       TRUE, FALSE)
             ELSE IF RegexSearch(pattern, cur)
             THEN step("local_match", cur, <<>>, FALSE, FALSE)
             ELSE step("local_nomatch", cur,
                       <<Violation(v, OnFailOnly(params), "validator_failed")>>,
                       TRUE, FALSE)
        ELSE IF out.raises
        THEN step("exception", cur, <<Violation(v, params, "str(err)")>>,
                  ExceptionFlag(params), TRUE)
        ELSE IF parsed.is_valid
        THEN step("passed", parsed.text, <<>>, FALSE, TRUE)
        ELSE step("failed", parsed.text,
                  <<Violation(v, OnFailOnly(params), "validator_failed")>>,
                  TRUE, TRUE)

----------------------------------------------------------------------------
(* guardrails/hub_adapter.py: the adapter of the former package *)

\* str.capitalize() of one part of a name
CapTok(t) ==
    CASE t = "detect" -> "Detect"
      [] t = "pii" -> "Pii"
      [] t = "regex" -> "Regex"
      [] t = "match" -> "Match"
      [] t = "valid" -> "Valid"
      [] t = "json" -> "Json"
      [] t = "url" -> "Url"
      [] t = "toxic" -> "Toxic"
      [] t = "language" -> "Language"
      [] OTHER -> t

\* "".join(p.capitalize() for p in base.split("_") if p)
RECURSIVE Pascal(_)
Pascal(base) ==
    IF base = <<>> THEN <<>>
    ELSE IF Head(base) = "_" THEN Pascal(Tail(base))
    ELSE <<CapTok(Head(base))>> \o Pascal(Tail(base))

\* guardrails/hub_adapter.py 86-114: class names tried for a slug or type,
\* the built-in variants before the PascalCase of the name
Legacy_candidates_for(slug_or_type) ==
    LET s == Replace(Lower(Strip(Or(slug_or_type, EmptyStr))), "-", "_")
        last == SplitLast(s, "/")
        base == SplitLast(last, ":")
        variants ==
            CASE base \in {s_regex_match, s_regex} -> << <<"Regex", "Match">>, <<"Regex">> >>
              [] base \in {s_valid_json, <<"json">>} ->
                    << <<"Valid", "JSON">>, <<"Valid", "Json">> >>
              [] base \in {s_valid_url, <<"url">>} ->
                    << <<"Valid", "URL">>, <<"Valid", "Url">> >>
              [] base = s_toxic_language -> << <<"Toxic", "Language">> >>
              [] base = s_competitor_check -> << <<"Competitor", "Check">> >>
              [] base = <<"unusual", "_", "prompt">> -> << <<"Unusual", "Prompt">> >>
              [] base = <<"guardrails", "_", "pii">> -> << <<"Guardrails", "PII">> >>
              [] base = s_detect_pii -> << <<"Detect", "PII">> >>
              [] base \in {s_pii, <<"contains", "_", "pii">>, <<"personal", "_", "data">>} ->
                    << <<"PII">>, <<"Pii">> >>
              [] base \in {s_blocklist, <<"blacklist">>, <<"denylist">>,
                           <<"block", "_", "list">>} -> << <<"Blocklist">> >>
              [] OTHER -> <<>>
    IN  variants \o <<Pascal(base)>>

\* guardrails/hub_adapter.py 73-148
Legacy_resolve_hub_cls(v, cat) ==
    LET type_raw == Lower(Strip(Or(Get(v.top, "type"), EmptyStr)))
        hub_id == Lower(Strip(Or(Get(v.top, "hub_id"), EmptyStr)))
        names == IF Truthy(hub_id) THEN Legacy_candidates_for(hub_id)
                 ELSE Legacy_candidates_for(type_raw)
        fromHub == IF cat.hub_ok THEN FirstAttr(cat.hub, names, "hub") ELSE None
        fromValidators ==
            IF cat.validators_ok THEN FirstAttr(cat.validators, names, "validators")
            ELSE None
        base_slug ==
            Replace(SplitLast(Lower(Strip(Or(hub_id, Or(type_raw, EmptyStr)))), "/"),
                    "-", "_")
        plugin_mod_name == <<"guardrails_grhub_">> \o base_slug
        fromPlugin ==
            IF \E p \in cat.plugins : p.name = plugin_mod_name
            THEN FirstAttr((CHOOSE p \in cat.plugins : p.name = plugin_mod_name).attrs,
                           names, "plugin")
            ELSE None
        target == Or(hub_id, s_guardrails_slash \o base_slug)
        fromLoad ==
            IF /\ cat.hub_ok
               /\ Truthy(hub_id) \/ Truthy(type_raw)
               /\ cat.has_load
               /\ ~cat.load_raises
               /\ target \in cat.loadable \/ (<<"hub://">> \o target) \in cat.loadable
            THEN ClassOf("load", target)
            ELSE None
    IN  IF fromHub # None THEN fromHub
        ELSE IF fromValidators # None THEN fromValidators
        ELSE IF fromPlugin # None THEN fromPlugin
        ELSE fromLoad

\* guardrails/hub_adapter.py 161-231: one iteration for an in-scope validator;
\* `flags` are the flags appended (none when the validator is skipped)
LegacyValidatorStep(v, cur, cat, out) ==
    LET cls == Legacy_resolve_hub_cls(v, cat)
        t == Lower(Strip(Or(Get(v.top, "type"), EmptyStr)))
        pattern == Or(Get(v.top, "pattern"), Or(Get(v.params, "regex"), EmptyStr))
        p1 == IF t = s_regex THEN Put(v.params, "regex", pattern) ELSE v.params
        p2 == SetDefault(p1, "on_fail", Or(Get(v.top, "on_fail"), s_exception))
        params == [k \in Keys |->
                     IF k \notin Reserved /\ In(v.top, k) /\ ~In(p2, k)
                     THEN v.top[k] ELSE p2[k]]
        parsed == ParseResult(out.result, cur)
        step(kind, txt, viols, flags, invoked) ==
            [kind |-> kind, text |-> txt, violations |-> viols, flags |-> flags,
             invoked |-> invoked, resolved |-> cls # None, params |-> params]
    IN  IF cls = None
        THEN step("skipped", cur, <<>>, <<>>, FALSE)
        ELSE IF t = s_regex /\ ~Truthy(pattern)
        THEN step("skipped_no_pattern", cur, <<>>, <<>>, FALSE)
        ELSE IF out.raises
        THEN step("exception", cur, <<Violation(v, params, "str(err)")>>,
                  <<ExceptionFlag(params)>>, TRUE)
        ELSE step(IF parsed.is_valid THEN "passed" ELSE "failed", parsed.text,
                  <<>>, <<~parsed.is_valid>>, TRUE)

----------------------------------------------------------------------------
(* main.py: what the HTTP layer makes of a request *)

s_gr_regex_match == s_guardrails_slash \o s_regex_match

IsQuote(t) == t = "\"" \/ t = "'"

\* str.strip(c) for a one-character c
RECURSIVE StripTok(_, _)
StripTok(s, c) ==
    IF s # <<>> /\ Head(s) = c THEN StripTok(Tail(s), c)
    ELSE IF s # <<>> /\ s[Len(s)] = c THEN StripTok(SubSeq(s, 1, Len(s) - 1), c)
    ELSE s

\* pattern_val.strip().strip('"').strip("'")
StripQuotes(s) == StripTok(StripTok(Strip(s), "\""), "'")

\* main.py 82-120: the configuration built from a dict-shaped request
\* validator; an entry of its params named "params" (v.nested) becomes the
\* configuration's nested params mapping (119-120: cfg[k] = val)
BuildCfg(v) ==
    LET name_raw == Lower(Strip(Or(Get(v.top, "name"), EmptyStr)))
        type_given == Lower(Strip(Or(Get(v.top, "type"), EmptyStr)))
        type_raw == IF Truthy(type_given) THEN type_given
                    ELSE IF Contains(name_raw, s_regex) THEN s_regex
                    ELSE IF Contains(name_raw, <<"url">>) THEN s_valid_url
                    ELSE type_given
        scope_raw == Lower(Strip(Or(Get(v.top, "scope"), s_both)))
        hub_given == Lower(Strip(Or(Get(v.top, "hub_id"), EmptyStr)))
        hub_id_raw == IF ~Truthy(hub_given) /\ type_raw \in {s_regex, s_regex_match}
                      THEN s_gr_regex_match ELSE hub_given
        pattern_val == IF Truthy(Get(v.top, "pattern"))
                       THEN StripQuotes(Get(v.top, "pattern")) ELSE Get(v.top, "pattern")
        c1 == Put(Put(EmptyDict, "type", type_raw), "scope", scope_raw)
        c2 == IF Truthy(hub_id_raw) THEN Put(c1, "hub_id", hub_id_raw) ELSE c1
        c3 == IF Truthy(pattern_val) /\ IsRegexShaped(type_raw, hub_id_raw)
              THEN Put(c2, "pattern", pattern_val) ELSE c2
        c4 == IF Truthy(Get(v.top, "on_fail"))
              THEN Put(c3, "on_fail", Get(v.top, "on_fail")) ELSE c3
    IN  [top |-> [k \in Keys |-> IF In(v.params, k) THEN v.params[k] ELSE c4[k]],
         params |-> IF "nested" \in DOMAIN v THEN v.nested ELSE EmptyDict]

\* the details mapping returned with a text: the keys it holds and their values
Details(keys, valid, violations, error) ==
    [keys |-> keys, valid |-> valid, violations |-> violations, error |-> error]

\* main.py 157-169
_is_valid(details) ==
    IF "valid" \in details.keys THEN details.valid
    ELSE IF "error" \in details.keys /\ details.error # "" THEN FALSE
    ELSE IF "violations" \in details.keys /\ Len(details.violations) > 0 THEN FALSE
    ELSE TRUE

\* main.py 257-261: HTTPException(422, {"message": ..., **details}) or the
\* ValidateResponse
HttpResponse(sanitized, details) ==
    IF ~_is_valid(details)
    THEN [status |-> 422, text |-> None, valid |-> FALSE,
          message |-> "Guardrail validation failed", details |-> details]
    ELSE [status |-> 200, text |-> sanitized, valid |-> TRUE,
          message |-> "", details |-> details]

----------------------------------------------------------------------------
(* dto.py, guardrail_factory.py: descriptors, enums, the registry *)

\* An AgentGuardrail is [top |-> its attributes, params |-> its params
\* mapping]; an attribute the object does not have is Absent.

\* the members of GuardrailsScope
E_INPUT == <<"GuardrailsScope.INPUT">>

E_OUTPUT == <<"GuardrailsScope.OUTPUT">>

E_BOTH == <<"GuardrailsScope.BOTH">>

ScopeEnum == {E_INPUT, E_OUTPUT, E_BOTH}

\* hasattr(x, "value")
HasValue(x) == x \in ScopeEnum

\* x.value
EnumValue(x) ==
    CASE x = E_INPUT -> s_input
      [] x = E_OUTPUT -> s_output
      [] x = E_BOTH -> s_both

\* guardrail_factory.py 11-23
_normalize_type_key(type_key) ==
    LET key == Lower(Strip(Or(type_key, EmptyStr)))
    IN  IF \E j \in 1..Len(key) : key[j] = "." THEN SplitLast(key, ".") ELSE key

\* guardrail_factory.py 66-75: the registrations of the default factory
DefaultRegistry ==
    (s_regex_match :> "HubGuardrail") @@ (s_valid_json :> "HubGuardrail")
    @@ (s_valid_url :> "HubGuardrail") @@ (s_toxic_language :> "HubGuardrail")
    @@ (s_competitor_check :> "HubGuardrail") @@ (s_detect_pii :> "PIIGuardrail")
    @@ (s_blocklist :> "BlocklistGuardrail")

\* GuardrailFactory.register
register(reg, type_key, cls) ==
    LET key == _normalize_type_key(type_key)
    IN  [k \in DOMAIN reg \cup {key} |-> IF k = key THEN cls ELSE reg[k]]

\* GuardrailFactory.get: the registered class, or None
get(reg, type_key) ==
    LET key == _normalize_type_key(type_key)
    IN  IF key \in DOMAIN reg THEN reg[key] ELSE "None"

\* a create without the fallback to the base class
create_no_fallback(reg, config) == get(reg, Get(config.top, "type"))

\* GuardrailFactory.create: the class of the instance made for a descriptor
create(reg, config) ==
    LET cls == get(reg, Get(config.top, "type"))
    IN  IF cls = "None" THEN "Guardrail" ELSE cls

\* dto.py 34-42: AgentGuardrail(...) with the dataclass defaults for the
\* arguments left out (Absent)
AgentGuardrail(type, scope, hub_id, pattern, on_fail) ==
    [top |-> [k \in Keys |->
                CASE k = "type" -> IF type = Absent THEN s_regex_match ELSE type
                  [] k = "scope" -> IF scope = Absent THEN E_BOTH ELSE scope
                  [] k = "hub_id" -> IF hub_id = Absent THEN None ELSE hub_id
                  [] k = "pattern" -> IF pattern = Absent THEN None ELSE pattern
                  [] k = "on_fail" -> IF on_fail = Absent THEN s_exception ELSE on_fail
                  [] OTHER -> Absent],
     params |-> EmptyDict]

----------------------------------------------------------------------------
(* hub_guardrail.py *)

\* HUB_ID_MAP
HUB_ID_MAP ==
    (s_regex_match :> s_guardrails_slash \o s_regex_match)
    @@ (s_valid_json :> s_guardrails_slash \o s_valid_json)
    @@ (s_valid_url :> s_guardrails_slash \o s_valid_url)
    @@ (<<"unusual", "_", "prompt">> :> s_guardrails_slash \o <<"unusual", "_", "prompt">>)
    @@ (s_detect_pii :> s_guardrails_slash \o s_detect_pii)

_infer_type_from_hub_id(hub_id) ==
    LET base == SplitLast(Lower(Strip(Or(hub_id, EmptyStr))), "/")
    IN  IF ~Truthy(base) THEN s_unknown
        ELSE IF Contains(base, s_regex_match) THEN s_regex_match
        ELSE IF Contains(base, <<"json">>) THEN s_valid_json
        ELSE IF Contains(base, <<"url">>) THEN s_valid_url
        ELSE IF Contains(base, <<"unusual", "_", "prompt">>)
        THEN <<"unusual", "_", "prompt">>
        ELSE IF Contains(base, s_detect_pii) THEN s_detect_pii
        ELSE IF \E term \in {s_blocklist, <<"blacklist">>, <<"denylist">>} :
                    Contains(base, term)
        THEN s_blocklist
        ELSE base

\* self.config.scope.value if hasattr(self.config.scope, "value")
\*   else str(self.config.scope or "both")).strip().lower()
ScopeStr(config) ==
    LET sc == Get(config.top, "scope")
    IN  Lower(Strip(IF HasValue(sc) THEN EnumValue(sc) ELSE Or(sc, s_both)))

\* hub_guardrail.py 64-99: the validator configuration handed to hub.run
HubValidatorCfg(config) ==
    LET hub_id == Or(Get(config.top, "hub_id"), EmptyStr)
        on_fail == Or(Get(config.top, "on_fail"), s_exception)
        pattern == Or(Get(config.top, "pattern"), EmptyStr)
        inferred == _infer_type_from_hub_id(hub_id)
        t_lower == LET t == Lower(Strip(Or(Get(config.top, "type"), EmptyStr)))
                   IN  IF \E j \in 1..Len(t) : t[j] = "." THEN SplitLast(t, ".") ELSE t
        validator_type ==
            IF Truthy(hub_id) THEN inferred
            ELSE IF t_lower = <<"json">> THEN s_valid_json
            ELSE IF t_lower = <<"url">> THEN s_valid_url
            ELSE IF t_lower \in {s_competitor_check, s_regex_match,
                                 <<"unusual", "_", "prompt">>, s_detect_pii,
                                 s_pii, s_blocklist, s_valid_json, s_valid_url}
            THEN t_lower
            ELSE inferred
        c1 == IF Truthy(hub_id) THEN Put(EmptyDict, "hub_id", hub_id)
              ELSE IF validator_type \in DOMAIN HUB_ID_MAP
              THEN Put(EmptyDict, "hub_id", HUB_ID_MAP[validator_type])
              ELSE EmptyDict
        c2 == Put(Put(Put(c1, "type", validator_type), "scope", ScopeStr(config)),
                  "on_fail", on_fail)
        c3 == IF validator_type = s_regex THEN Put(c2, "pattern", pattern) ELSE c2
    IN  [top |-> [k \in Keys |-> IF In(config.params, k) THEN config.params[k]
                                 ELSE c3[k]],
         params |-> EmptyDict]

\* hub_adapter.py 308-309: what run returns after the one iteration st
RunResult(st) ==
    [text |-> st.text,
     details |-> Details({"valid", "violations"}, ~st.flag, st.violations, "")]

\* hub.run(text, [v], scope) (hub_adapter.py 63-309 for a single validator)
RunSingle(v, txt, runtime_scope, avail, gok, cat, out) ==
    IF ~avail THEN [text |-> txt, details |-> Details({}, TRUE, <<>>, "")]
    ELSE IF ~gok THEN [text |-> txt, details |-> Details({"error"}, TRUE, <<>>, "str(e)")]
    ELSE IF ~_scope_matches(Get(v.top, "scope"), Or(runtime_scope, s_both))
    THEN [text |-> txt, details |-> Details({"valid", "violations"}, TRUE, <<>>, "")]
    ELSE RunResult(ValidatorStep(v, txt, cat, out))

\* hub_guardrail.py 108-122: the details of run become the end event, with
\* a violations entry in every case, and the input text is returned
EndEvent(user_input, details) ==
    [text |-> user_input,
     details |-> Details(details.keys \cup {"violations"}, details.valid,
                         details.violations, details.error)]

\* a HubGuardrail.validate that reports the missing library as a violation
HubGuardrailValidate_unavailable_fails(config, user_input, avail, gok, cat, out) ==
    IF ~avail
    THEN [text |-> user_input,
          details |-> Details({"valid", "violations"}, FALSE,
                              <<[error |-> "hub_unavailable"]>>, "")]
    ELSE EndEvent(user_input,
                  RunSingle(HubValidatorCfg(config), user_input, ScopeStr(config),
                            avail, gok, cat, out).details)

\* a HubGuardrail.validate that returns the text of hub.run
HubGuardrailValidate_returns_run_text(config, user_input, avail, gok, cat, out) ==
    IF ~avail
    THEN [text |-> user_input,
          details |-> Details({"error", "violations"}, TRUE, <<>>,
                              "guardrails_library_unavailable")]
    ELSE [text |-> RunSingle(HubValidatorCfg(config), user_input, ScopeStr(config),
                             avail, gok, cat, out).text,
          details |-> EndEvent(user_input,
                               RunSingle(HubValidatorCfg(config), user_input,
                                         ScopeStr(config), avail, gok, cat,
                                         out).details).details]

\* HubGuardrail.validate (36-122): the text returned and the details of the
\* end event; any error of the adapter is caught (118-119)
HubGuardrailValidate(config, user_input, avail, gok, cat, out) ==
    IF ~avail
    THEN [text |-> user_input,
          details |-> Details({"error", "violations"}, TRUE, <<>>,
                              "guardrails_library_unavailable")]
    ELSE EndEvent(user_input,
                  RunSingle(HubValidatorCfg(config), user_input, ScopeStr(config),
                            avail, gok, cat, out).details)

----------------------------------------------------------------------------
(* base_guardrail.py, regex_guardrail.py, blocklist_guardrail.py,           *)
(* pii_guardrail.py: what validate returns, by class of the check           *)

\* "RewriteGuardrail" stands for a Guardrail subclass that an application
\* registers and whose validate rewrites the text (it appends a mark).
CheckValidate(cls, config, user_input, avail, gok, cat, out) ==
    CASE cls = "HubGuardrail" ->
            HubGuardrailValidate(config, user_input, avail, gok, cat, out)
      [] cls = "RewriteGuardrail" ->
            [text |-> user_input \o <<"#">>,
             details |-> Details({"action"}, TRUE, <<>>, "")]
      [] OTHER ->
            [text |-> user_input, details |-> Details({"action"}, TRUE, <<>>, "")]

----------------------------------------------------------------------------
(* Inputs *)

MaxValidators == 2

\* a validator configuration with the given top-level entries
VC(type, scope, hub_id, pattern, on_fail) ==
    [top |-> [k \in Keys |->
                CASE k = "type" -> type
                  [] k = "scope" -> scope
                  [] k = "hub_id" -> hub_id
                  [] k = "pattern" -> pattern
                  [] k = "on_fail" -> on_fail
                  [] OTHER -> Absent],
     params |-> EmptyDict]

WithParam(v, k, val) == [v EXCEPT !.params = Put(v.params, k, val)]

WithTop(v, k, val) == [v EXCEPT !.top = Put(v.top, k, val)]

\* a request validator whose params hold a mapping under the key "params"
WithNested(v, d) == [top |-> v.top, params |-> v.params, nested |-> d]

DescriptorScopes == {Absent, s_input, s_output, s_both, <<" ", "Input">>}

RuntimeScopes == {None, s_input, s_output, s_both}

Texts == {<<"a">>, <<"b">>}

\* The validator configurations run is given come from one of these families:
\* a delegate-backed validator in every scope;
ScopeFamily == {VC(s_detect_pii, sc, Absent, Absent, Absent) : sc \in DescriptorScopes}

\* with every on_fail, at the top level or in the nested params;
OnFailFamily ==
    {VC(s_detect_pii, s_both, Absent, Absent, of) : of \in {Absent, s_noop, s_exception}}
    \cup {WithParam(VC(s_detect_pii, s_both, Absent, Absent, s_exception),
                    "on_fail", s_noop)}

\* regex-shaped by type, with a literal, a malformed or no pattern;
RegexFamily ==
    {VC(s_regex, s_both, Absent, pat, Absent) : pat \in {Absent, <<"a">>, <<"(">>}}
    \cup {VC(s_regex, s_both, Absent, Absent, s_noop),
          WithParam(VC(s_regex, s_both, Absent, Absent, Absent), "regex", <<"a">>)}

\* regex-shaped by hub_id;
HubRegexFamily ==
    {VC(ty, s_both, s_gr_regex_match, pat, Absent) :
        ty \in {Absent}, pat \in {Absent, <<"a">>, <<"(">>}}
    \cup {VC(s_regex_match, s_both, s_gr_regex_match, <<"(">>, s_noop)}

\* and a mix, with a validator that names neither a type nor a hub_id.
MixedFamily ==
    {VC(s_detect_pii, Absent, Absent, Absent, Absent),
     VC(s_detect_pii, s_input, Absent, Absent, s_noop),
     VC(s_regex, s_output, Absent, Absent, Absent),
     VC(s_regex_match, s_both, s_gr_regex_match, <<"a">>, Absent),
     VC(Absent, Absent, Absent, Absent, Absent)}

\* with further fields: at the top level, in the nested params, in both,
\* a nested entry under a reserved name, and a further field on a validator
\* that names neither a type nor a hub_id.
ParamsFamily ==
    {WithTop(VC(s_detect_pii, s_both, Absent, Absent, Absent), "tag", <<"X">>),
     WithParam(VC(s_detect_pii, s_both, Absent, Absent, Absent), "tag", <<"Y">>),
     WithParam(WithTop(VC(s_detect_pii, s_both, Absent, Absent, Absent), "tag", <<"X">>),
               "tag", <<"Y">>),
     WithParam(VC(s_detect_pii, s_both, Absent, Absent, Absent), "type", <<"x">>),
     WithTop(VC(Absent, s_both, Absent, Absent, Absent), "tag", <<"X">>)}

\* the sequences of at most n elements of S
SeqsUpTo(S, n) == UNION {[1..m -> S] : m \in 0..n}

\* The catalogs: nothing importable but Guard (the test double), and a
\* catalog whose hub namespace defines detect_pii and regex_match.
NoCatalog ==
    [hub_ok |-> FALSE, hub |-> {}, validators_ok |-> FALSE, validators |-> {},
     plugins |-> {}, has_load |-> FALSE, load_raises |-> FALSE, loadable |-> {}]

HubCatalog ==
    [hub_ok |-> TRUE, hub |-> {s_detect_pii, s_regex_match},
     validators_ok |-> TRUE, validators |-> {},
     plugins |-> {}, has_load |-> FALSE, load_raises |-> FALSE, loadable |-> {}]

\* a catalog whose hub namespace defines the classes DetectPII and RegexMatch
LegacyCatalog ==
    [hub_ok |-> TRUE, hub |-> {<<"Detect", "PII">>, <<"Regex", "Match">>},
     validators_ok |-> TRUE, validators |-> {},
     plugins |-> {}, has_load |-> FALSE, load_raises |-> FALSE, loadable |-> {}]

LegacyCatalogs == {NoCatalog, LegacyCatalog}

\* the validators the former adapter is run on
LegacyFamily ==
    {VC(s_detect_pii, s_both, Absent, Absent, Absent),
     VC(s_detect_pii, s_input, Absent, Absent, s_noop),
     VC(s_regex, s_both, Absent, <<"a">>, Absent),
     VC(s_regex, Absent, Absent, Absent, Absent),
     VC(<<"foo">>, s_both, Absent, Absent, Absent)}

\* Each family is run under the runtime scopes, texts and catalogs that tell
\* its members apart.
Families ==
    {[validators |-> ScopeFamily, scopes |-> RuntimeScopes,
      texts |-> {<<"a">>}, catalogs |-> {NoCatalog}],
     [validators |-> OnFailFamily, scopes |-> {None},
      texts |-> {<<"a">>}, catalogs |-> {NoCatalog}],
     [validators |-> RegexFamily, scopes |-> {s_both},
      texts |-> Texts, catalogs |-> {NoCatalog}],
     [validators |-> HubRegexFamily, scopes |-> {s_both},
      texts |-> Texts, catalogs |-> {NoCatalog, HubCatalog}],
     [validators |-> MixedFamily, scopes |-> {s_both, s_output},
      texts |-> {<<"a">>}, catalogs |-> {NoCatalog, HubCatalog}],
     [validators |-> ParamsFamily, scopes |-> {s_both},
      texts |-> {<<"a">>}, catalogs |-> {NoCatalog}]}

\* What Guard().use(target, **params).validate(cur) can do: raise, or return
\* a result in which the text is rewritten (a mark appended) or emptied, or
\* a result that is no tuple, mapping or string and so carries no text.
Rewritten(cur) == cur \o <<"#">>

GuardOutcomes(cur) ==
    {[raises |-> TRUE, result |-> OtherResult]}
    \cup {[raises |-> FALSE, result |-> r] : r \in
            {TupleResult(2, Rewritten(cur), "True"),
             TupleResult(2, Rewritten(cur), "False"),
             DictResult(Put(NoTxt, "text", EmptyStr), NoVal),
             OtherResult}}

----------------------------------------------------------------------------
(* State *)

VARIABLES
    caller,             \* the operation called: "run" (GuardrailsHubAdapter.run),
                        \* "http" (POST /validate), "service"
                        \* (GuardrailsService.validate), "legacy" (run of
                        \* guardrails/hub_adapter.py)
    payload,            \* the request body (caller "http")
    available,          \* GUARDRAILS_AVAILABLE
    guard_ok,           \* `from guardrails import Guard` succeeds
    catalog,            \* what the resolver can find
    registry,           \* GuardrailFactory._registry of the default factory
    text,               \* the text argument (run: text, service: user_input)
    scope,              \* the scope argument
    validators_config,  \* run's validators_config
    guardrails,         \* the service's guardrails
    pc,
    i,                  \* position of the loop
    sanitized_text,     \* the text threaded through the loop
    violations,
    invalid_flags,
    evals,              \* history: what each in-scope validator / guardrail did
    result,             \* what guard.validate returned (caller "parse")
    ret,                \* what the operation returned: (text, details)
    response,           \* the HTTP response
    telemetry           \* EventUtil.emit: "ok", or the notification on which
                        \* it raises ("start", "end")

vars == <<caller, payload, available, guard_ok, catalog, registry, text, scope,
          validators_config, guardrails, pc, i, sanitized_text, violations,
          invalid_flags, evals, result, ret, response, telemetry>>

\* what no action changes
inputs == <<caller, payload, available, guard_ok, catalog, registry, guardrails,
            result, telemetry>>

NoDetails == Details({}, TRUE, <<>>, "")

NoRet == [text |-> None, details |-> NoDetails]

NoResponse == [status |-> 0, text |-> None, valid |-> FALSE, message |-> "",
               details |-> NoDetails]

NoPayload == [text |-> None, scope |-> Absent, validators |-> <<>>]

\* the validators of a request body: the test requests of tests/test_api.py,
\* a validator named by its label with a quoted pattern, one without pattern,
\* one whose params hold a mapping under the reserved name "params"
RequestFamily ==
    {VC(s_regex, s_input, Absent, <<"a">>, Absent),
     WithParam(VC(s_regex, s_output, Absent, <<"b">>, Absent), "tag", <<"OUT">>),
     VC(s_detect_pii, s_both, s_guardrails_slash \o s_detect_pii, Absent, Absent),
     WithTop(VC(Absent, Absent, Absent, <<"\"", "a", "\"">>, s_noop),
             "name", <<"Regex", " ", "Match">>),
     VC(s_regex, Absent, Absent, Absent, Absent),
     WithNested(VC(s_detect_pii, s_both, Absent, Absent, Absent),
                Put(EmptyDict, "type", <<"x">>))}

\* the guardrails the service is given: a rewriting check in every scope, or
\* one check of each kind (delegate-backed, PII, blocklist, rewriting, and a
\* type without registration)
s_rewrite == <<"rewrite">>

ServiceScopeFamily ==
    {AgentGuardrail(s_rewrite, sc, Absent, Absent, Absent) :
        sc \in {Absent, E_INPUT, E_OUTPUT, E_BOTH}}

ServiceTypeFamily ==
    {AgentGuardrail(ty, Absent, Absent, <<"a">>, Absent) :
        ty \in {s_regex_match, s_valid_json, s_detect_pii, s_blocklist, s_rewrite, s_pii}}

ServiceFamilies == {ServiceScopeFamily, ServiceTypeFamily}

\* the default registry, as it is or with an application's rewriting check
Registries == {DefaultRegistry, register(DefaultRegistry, s_rewrite, "RewriteGuardrail")}

\* the environment: guardrails importable with Guard, importable without
\* Guard, not importable
Environments ==
    {[available |-> TRUE, guard_ok |-> TRUE],
     [available |-> TRUE, guard_ok |-> FALSE],
     [available |-> FALSE, guard_ok |-> FALSE]}

Init ==
    /\ caller \in {"run", "http", "service", "legacy"}
    /\ \E env \in Environments :
          /\ available = env.available
          /\ guard_ok = env.guard_ok
    /\ CASE caller = "run" ->
              /\ payload = NoPayload
              /\ \E F \in Families :
                    /\ validators_config \in SeqsUpTo(F.validators, MaxValidators)
                    /\ scope \in F.scopes
                    /\ text \in F.texts
                    /\ catalog \in F.catalogs
              /\ guardrails = <<>>
              /\ registry = DefaultRegistry
              /\ pc = "run"
         [] caller = "http" ->
              /\ payload \in [text : Texts, scope : {Absent, s_input},
                              validators : SeqsUpTo(RequestFamily, MaxValidators)]
              /\ catalog \in {NoCatalog, HubCatalog}
              /\ text = None
              /\ scope = None
              /\ validators_config = <<>>
              /\ guardrails = <<>>
              /\ registry = DefaultRegistry
              /\ pc = "http"
         [] caller = "legacy" ->
              /\ payload = NoPayload
              /\ text = <<"a">>
              /\ scope \in {None, s_input}
              /\ validators_config \in SeqsUpTo(LegacyFamily, MaxValidators)
              /\ catalog \in LegacyCatalogs
              /\ guardrails = <<>>
              /\ registry = DefaultRegistry
              /\ pc = "legacy_run"
         [] caller = "service" ->
              /\ payload = NoPayload
              /\ text = <<"a">>
              /\ scope \in ScopeEnum
              /\ validators_config = <<>>
              /\ \E F \in ServiceFamilies : guardrails \in SeqsUpTo(F, MaxValidators)
              /\ catalog \in {NoCatalog, HubCatalog}
              /\ registry \in Registries
              /\ pc = "service"
    /\ result = OtherResult
    /\ i = 1
    /\ sanitized_text = None
    /\ violations = <<>>
    /\ invalid_flags = <<>>
    /\ evals = <<>>
    /\ ret = NoRet
    /\ response = NoResponse
    /\ telemetry = "ok"

----------------------------------------------------------------------------
(* Actions *)

\* where run's caller continues
AfterRun ==
    IF caller = "http" THEN "respond" ELSE IF caller = "api" THEN "api_return" ELSE "done"

\* only the last flag decides
AnyFlag_last_only(flags) == Len(flags) > 0 /\ flags[Len(flags)]

\* an empty list of flags counts as a failure
AnyFlag_empty_fails(flags) == Len(flags) = 0 \/ \E j \in 1..Len(flags) : flags[j]

\* any(invalid_flags)
AnyFlag(flags) == \E j \in 1..Len(flags) : flags[j]

\* main.py 204-248 and 59-154: POST /validate up to the call of hub.run.
\* The local-first stage (219-238) calls GuardrailsApiService.validate on the
\* class with keywords it does not take; the TypeError is caught and logged,
\* so the handler always goes on to the hub validators.
HttpValidate ==
    /\ pc = "http"
    /\ LET req_scope == IF In(payload, "scope") THEN Lower(Strip(payload.scope))
                        ELSE s_both
           user_input == Or(payload.text, EmptyStr)
       IN  IF ~available \/ ~guard_ok
           THEN /\ ret' = [text |-> user_input,
                           details |-> Details({"valid", "violations"}, FALSE,
                                <<[error |-> "hub_unavailable",
                                   message |-> "guardrails-ai not installed or validate not supported"]>>,
                                "")]
                /\ pc' = "respond"
                /\ UNCHANGED <<text, scope, validators_config>>
           ELSE /\ validators_config' =
                        [j \in 1..Len(payload.validators) |->
                            BuildCfg(payload.validators[j])]
                /\ text' = user_input
                /\ scope' = Or(req_scope, s_both)
                /\ pc' = "run"
                /\ ret' = ret
    /\ UNCHANGED <<inputs, i, sanitized_text, violations, invalid_flags, evals,
                   response>>

\* hub_adapter.py 63-175: run up to its loop
RunEnter ==
    /\ pc = "run"
    /\ IF ~available
       THEN /\ ret' = [text |-> text, details |-> NoDetails]
            /\ pc' = AfterRun
            /\ UNCHANGED <<sanitized_text, violations, invalid_flags>>
       ELSE IF ~guard_ok
       THEN /\ ret' = [text |-> text,
                       details |-> Details({"error"}, TRUE, <<>>, "str(e)")]
            /\ pc' = AfterRun
            /\ UNCHANGED <<sanitized_text, violations, invalid_flags>>
       ELSE /\ violations' = <<>>
            /\ sanitized_text' = text
            /\ invalid_flags' = <<>>
            /\ pc' = "loop"
            /\ ret' = ret
    /\ UNCHANGED <<inputs, text, scope, validators_config, i, evals, response>>

\* records put at the head of the list
Extend_prepend(list, items) == items \o list

\* an extend that loses the items
Extend_drop(list, items) == list

\* violations.append(...) for each record of an iteration, in order
Extend(list, items) == list \o items

\* hub_adapter.py 176-306: one iteration of the loop
RunValidator ==
    /\ pc = "loop"
    /\ i <= Len(validators_config)
    /\ LET v == validators_config[i]
           runtime_scope == Or(scope, s_both)
       IN  IF ~_scope_matches(Get(v.top, "scope"), runtime_scope)
           THEN UNCHANGED <<sanitized_text, violations, invalid_flags, evals>>
           ELSE \E out \in GuardOutcomes(sanitized_text) :
                   \E st \in {ValidatorStep(v, sanitized_text, catalog, out)} :
                       /\ sanitized_text' = st.text
                       /\ violations' = Extend(violations, st.violations)
                       /\ invalid_flags' = Append(invalid_flags, st.flag)
                       /\ evals' = Append(evals,
                            [idx |-> i, input |-> sanitized_text, kind |-> st.kind,
                             output |-> st.text, flag |-> st.flag,
                             invoked |-> st.invoked, resolved |-> st.resolved,
                             params |-> st.params,
                             violations |-> st.violations,
                             out |-> IF st.invoked THEN out
                                     ELSE [raises |-> FALSE, result |-> OtherResult]])
    /\ i' = i + 1
    /\ UNCHANGED <<inputs, text, scope, validators_config, pc, ret, response>>

\* a run that returns as soon as one validator has failed
RunReturn_on_first_failure ==
    /\ pc = "loop"
    /\ i > Len(validators_config) \/ AnyFlag(invalid_flags)
    /\ ret' = [text |-> sanitized_text,
               details |-> Details({"valid", "violations"}, ~AnyFlag(invalid_flags),
                                   violations, "")]
    /\ pc' = AfterRun
    /\ UNCHANGED <<inputs, text, scope, validators_config, i, sanitized_text,
                   violations, invalid_flags, evals, response>>

\* hub_adapter.py 308-309
RunReturn ==
    /\ pc = "loop"
    /\ i > Len(validators_config)
    /\ ret' = [text |-> sanitized_text,
               details |-> Details({"valid", "violations"}, ~AnyFlag(invalid_flags),
                                   violations, "")]
    /\ pc' = AfterRun
    /\ UNCHANGED <<inputs, text, scope, validators_config, i, sanitized_text,
                   violations, invalid_flags, evals, response>>

\* main.py 155 and 249-261: `details or {}`, _is_valid, the response
HttpRespond ==
    /\ pc = "respond"
    /\ response' = HttpResponse(ret.text, ret.details)
    /\ pc' = "done"
    /\ UNCHANGED <<inputs, text, scope, validators_config, i, sanitized_text,
                   violations, invalid_flags, evals, ret>>

\* guardrails/hub_adapter.py 44-66, 150-154: the former run up to its loop
LegacyRunEnter ==
    /\ pc = "legacy_run"
    /\ IF ~available
       THEN /\ ret' = [text |-> text, details |-> NoDetails]
            /\ pc' = "done"
            /\ UNCHANGED <<sanitized_text, violations, invalid_flags>>
       ELSE IF ~guard_ok
       THEN /\ ret' = [text |-> text,
                       details |-> Details({"error"}, TRUE, <<>>, "str(e)")]
            /\ pc' = "done"
            /\ UNCHANGED <<sanitized_text, violations, invalid_flags>>
       ELSE /\ violations' = <<>>
            /\ sanitized_text' = text
            /\ invalid_flags' = <<>>
            /\ pc' = "legacy_loop"
            /\ ret' = ret
    /\ UNCHANGED <<inputs, text, scope, validators_config, i, evals, response>>

\* guardrails/hub_adapter.py 157-231: one iteration of the former loop
LegacyRunValidator ==
    /\ pc = "legacy_loop"
    /\ i <= Len(validators_config)
    /\ LET v == validators_config[i]
           runtime_scope == Or(scope, s_both)
       IN  IF ~_scope_matches(Get(v.top, "scope"), runtime_scope)
           THEN UNCHANGED <<sanitized_text, violations, invalid_flags, evals>>
           ELSE \E out \in GuardOutcomes(sanitized_text) :
                   \E st \in {LegacyValidatorStep(v, sanitized_text, catalog, out)} :
                       /\ sanitized_text' = st.text
                       /\ violations' = Extend(violations, st.violations)
                       /\ invalid_flags' = invalid_flags \o st.flags
                       /\ evals' = Append(evals,
                            [idx |-> i, input |-> sanitized_text, kind |-> st.kind,
                             output |-> st.text, flag |-> AnyFlag(st.flags),
                             invoked |-> st.invoked, resolved |-> st.resolved,
                             params |-> st.params,
                             violations |-> st.violations,
                             out |-> IF st.invoked THEN out
                                     ELSE [raises |-> FALSE, result |-> OtherResult]])
    /\ i' = i + 1
    /\ UNCHANGED <<inputs, text, scope, validators_config, pc, ret, response>>

\* guardrails/hub_adapter.py 233-235
LegacyRunReturn ==
    /\ pc = "legacy_loop"
    /\ i > Len(validators_config)
    /\ ret' = [text |-> sanitized_text,
               details |-> Details({"violations"}, TRUE, violations, "")]
    /\ pc' = "done"
    /\ UNCHANGED <<inputs, text, scope, validators_config, i, sanitized_text,
                   violations, invalid_flags, evals, response>>

\* guardrails_service.py 20: text = user_input
ServiceEnter ==
    /\ pc = "service"
    /\ sanitized_text' = text
    /\ pc' = "service_loop"
    /\ UNCHANGED <<inputs, text, scope, validators_config, i, violations,
                   invalid_flags, evals, ret, response>>

\* guardrails_service.py 21-25: one iteration of the loop
ServiceGuardrail ==
    /\ pc = "service_loop"
    /\ i <= Len(guardrails)
    /\ LET gr == guardrails[i]
           gr_scope == GetDefault(gr.top, "scope", E_BOTH)
       IN  IF gr_scope \in {scope, E_BOTH}
           THEN \E cls \in {create(registry, gr)} :
                \E out \in (IF cls = "HubGuardrail" THEN GuardOutcomes(sanitized_text)
                            ELSE {[raises |-> FALSE, result |-> OtherResult]}) :
                \E res \in {CheckValidate(cls, gr, sanitized_text, available,
                                          guard_ok, catalog, out)} :
                    /\ sanitized_text' = res.text
                    /\ evals' = Append(evals,
                            [idx |-> i, input |-> sanitized_text, kind |-> cls,
                             output |-> res.text, details |-> res.details])
           ELSE UNCHANGED <<sanitized_text, evals>>
    /\ i' = i + 1
    /\ UNCHANGED <<inputs, text, scope, validators_config, pc, violations,
                   invalid_flags, ret, response>>

\* guardrails_service.py 26
ServiceReturn ==
    /\ pc = "service_loop"
    /\ i > Len(guardrails)
    /\ ret' = [text |-> sanitized_text, details |-> NoDetails]
    /\ pc' = "done"
    /\ UNCHANGED <<inputs, text, scope, validators_config, i, sanitized_text,
                   violations, invalid_flags, evals, response>>

Next ==
    \/ HttpValidate
    \/ RunEnter
    \/ RunValidator
    \/ RunReturn
    \/ HttpRespond
    \/ LegacyRunEnter
    \/ LegacyRunValidator
    \/ LegacyRunReturn
    \/ ServiceEnter
    \/ ServiceGuardrail
    \/ ServiceReturn

Spec == Init /\ [][Next]_vars

----------------------------------------------------------------------------
(* The reading of a delegate's result on its own: hub_adapter.py 267-298 for *)
(* every result of the shapes run distinguishes                              *)

MaxTupleLen == 3

\* a tuple's first element: not a string, the empty string, a text
Firsts == {None, EmptyStr, <<"b">>}

Seconds == {"True", "False", "NotBool"}

TupleResults ==
    {TupleResult(0, None, "NotBool")}
    \cup {TupleResult(1, f, "NotBool") : f \in Firsts}
    \cup {TupleResult(n, f, sec) : n \in 2..MaxTupleLen, f \in Firsts, sec \in Seconds}

\* the validity-like entries of a mapping: none, one, or two that disagree
ValEntries ==
    {NoVal}
    \cup {[NoVal EXCEPT ![k] = b] : k \in Range(ValidKeys), b \in {"True", "False"}}
    \cup {[NoVal EXCEPT !["valid"] = "False", !["ok"] = "True"],
          [NoVal EXCEPT !["is_valid"] = "True", !["success"] = "False"]}

DictResults ==
    {DictResult(txt, val) :
        txt \in [Range(TextKeys) -> {Absent, None, EmptyStr, <<"b">>}],
        val \in ValEntries}

Results ==
    TupleResults \cup DictResults \cup {StrResult(EmptyStr), StrResult(<<"b">>), OtherResult}

\* a validator whose delegate is about to return `result` on the text
InitParse ==
    /\ caller = "parse"
    /\ payload = NoPayload
    /\ available = TRUE
    /\ guard_ok = TRUE
    /\ catalog = NoCatalog
    /\ registry = DefaultRegistry
    /\ text \in Texts
    /\ scope = None
    /\ validators_config \in
          {<<VC(s_detect_pii, s_both, Absent, Absent, of)>> : of \in {Absent, s_noop}}
    /\ guardrails = <<>>
    /\ result \in Results
    /\ pc = "loop"
    /\ i = 1
    /\ sanitized_text = text
    /\ violations = <<>>
    /\ invalid_flags = <<>>
    /\ evals = <<>>
    /\ ret = NoRet
    /\ response = NoResponse
    /\ telemetry = "ok"

\* hub_adapter.py 176-306 for a delegate that returns `result`
ParseValidator ==
    /\ pc = "loop"
    /\ i <= Len(validators_config)
    /\ \E out \in {[raises |-> FALSE, result |-> result]} :
       \E st \in {ValidatorStep(validators_config[i], sanitized_text, catalog, out)} :
          /\ sanitized_text' = st.text
          /\ violations' = Extend(violations, st.violations)
          /\ invalid_flags' = Append(invalid_flags, st.flag)
          /\ evals' = Append(evals,
                [idx |-> i, input |-> sanitized_text, kind |-> st.kind,
                 output |-> st.text, flag |-> st.flag,
                 invoked |-> st.invoked, resolved |-> st.resolved,
                 params |-> st.params,
                 violations |-> st.violations,
                 out |-> out])
    /\ i' = i + 1
    /\ UNCHANGED <<inputs, text, scope, validators_config, pc, ret, response>>

NextParse ==
    \/ ParseValidator
    \/ RunReturn

SpecParse == InitParse /\ [][NextParse]_vars

----------------------------------------------------------------------------
(* The resolvers on their own: _resolve_hub_cls of either adapter on one     *)
(* validator and one catalog                                                 *)

s_hub_regex_match == <<"hub://">> \o s_gr_regex_match

s_plugin_regex_match == <<"guardrails_grhub_">> \o s_regex_match

\* the validators resolved: named by type, by hub_id, by both or by neither
ResolveValidators ==
    {VC(ty, s_both, hid, Absent, Absent) :
        ty \in {Absent, s_regex_match, s_toxic_language, <<"Regex", "-", "match">>},
        hid \in {Absent, s_gr_regex_match, s_guardrails_slash \o s_detect_pii}}

\* the names a catalog namespace or a plugin module may define
SnakeNames == {s_regex_match, s_detect_pii, s_toxic_language}

ClassNames == {<<"Regex", "Match">>, <<"Detect", "PII">>, <<"Toxic", "Language">>}

\* the catalogs: guardrails.hub importable or not, each namespace empty or
\* defining the snake_case or the class names, the regex_match plugin
\* installed or not, and guardrails.hub.load absent, raising, or loading
\* nothing, the identifier, or its hub:// form
ResolveCatalogs ==
    {[hub_ok |-> ho, hub |-> h, validators_ok |-> TRUE, validators |-> vs,
      plugins |-> ps, has_load |-> hl, load_raises |-> lr, loadable |-> ld] :
        ho \in BOOLEAN, h \in {{}, SnakeNames, ClassNames},
        vs \in {{}, SnakeNames, ClassNames},
        ps \in {{}, {[name |-> s_plugin_regex_match, attrs |-> SnakeNames]},
                {[name |-> s_plugin_regex_match, attrs |-> ClassNames]}},
        hl \in BOOLEAN, lr \in BOOLEAN,
        ld \in {{}, {s_gr_regex_match}, {s_hub_regex_match}}}

InitResolve ==
    /\ caller \in {"resolve", "legacy_resolve"}
    /\ payload = NoPayload
    /\ available = TRUE
    /\ guard_ok = TRUE
    /\ catalog \in {c \in ResolveCatalogs :
                        /\ ~c.hub_ok => c.hub = {} /\ ~c.has_load
                        /\ ~c.has_load => ~c.load_raises /\ c.loadable = {}}
    /\ registry = DefaultRegistry
    /\ text = <<"a">>
    /\ scope = None
    /\ validators_config \in {<<v>> : v \in ResolveValidators}
    /\ guardrails = <<>>
    /\ result = OtherResult
    /\ pc = caller
    /\ i = 1
    /\ sanitized_text = text
    /\ violations = <<>>
    /\ invalid_flags = <<>>
    /\ evals = <<>>
    /\ ret = NoRet
    /\ response = NoResponse
    /\ telemetry = "ok"

\* hub_adapter.py 180: cls = _resolve_hub_cls(v)
Resolve ==
    /\ pc = "resolve"
    /\ evals' = Append(evals,
            [idx |-> i, kind |-> "resolve",
             cls |-> _resolve_hub_cls(validators_config[i], catalog)])
    /\ pc' = "done"
    /\ UNCHANGED <<inputs, text, scope, validators_config, i, sanitized_text,
                   violations, invalid_flags, ret, response>>

\* guardrails/hub_adapter.py 161: cls = _resolve_hub_cls(v)
LegacyResolve ==
    /\ pc = "legacy_resolve"
    /\ evals' = Append(evals,
            [idx |-> i, kind |-> "legacy_resolve",
             cls |-> Legacy_resolve_hub_cls(validators_config[i], catalog)])
    /\ pc' = "done"
    /\ UNCHANGED <<inputs, text, scope, validators_config, i, sanitized_text,
                   violations, invalid_flags, ret, response>>

NextResolve ==
    \/ Resolve
    \/ LegacyResolve

SpecResolve == InitResolve /\ [][NextResolve]_vars

----------------------------------------------------------------------------
(* The registry on its own: guardrail_factory.py under register, unregister  *)
(* and create calls                                                          *)

MaxCalls == 2

\* GuardrailFactory.unregister: self._registry.pop(key, None)
unregister(reg, type_key) ==
    LET key == _normalize_type_key(type_key)
    IN  [k \in DOMAIN reg \ {key} |-> reg[k]]

\* GuardrailFactory.__init__: an empty registry
NewRegistry == [k \in {} |-> "None"]

\* the type keys the calls are made with: plain, in another case or padded,
\* under a dotted prefix, padded after the dot, and types of the default
\* registrations
TypeKeys ==
    {<<"bar">>, <<" ", "Bar", " ">>, <<"Foo", ".", "Bar">>, <<"Foo", ".", " ", "bar">>,
     s_pii, s_detect_pii}

\* the classes registered: the pass-through base aside, a check that rewrites
\* the text and the PII detection check
RegisteredClasses == {"RewriteGuardrail", "PIIGuardrail"}

\* the type of the AgentGuardrail handed to create: a string or None
DescriptorTypes == TypeKeys \cup {None}

InitRegistry ==
    /\ caller = "registry"
    /\ payload = NoPayload
    /\ available = TRUE
    /\ guard_ok = TRUE
    /\ catalog = NoCatalog
    /\ registry \in {NewRegistry, DefaultRegistry}
    /\ text = <<"a">>
    /\ scope = None
    /\ validators_config = <<>>
    /\ guardrails = <<>>
    /\ result = OtherResult
    /\ pc = "registry"
    /\ i = 1
    /\ sanitized_text = None
    /\ violations = <<>>
    /\ invalid_flags = <<>>
    /\ evals = <<[idx |-> 0, kind |-> "init", registry |-> registry]>>
    /\ ret = NoRet
    /\ response = NoResponse
    /\ telemetry = "ok"

\* guardrail_factory.py 41-43: factory.register(type_key, cls)
Register ==
    /\ pc = "registry"
    /\ i <= MaxCalls
    /\ \E k \in TypeKeys : \E c \in RegisteredClasses :
          /\ registry' = register(registry, k, c)
          /\ evals' = Append(evals, [idx |-> i, kind |-> "register", key |-> k, cls |-> c])
    /\ i' = i + 1
    /\ UNCHANGED <<caller, payload, available, guard_ok, catalog, guardrails, result,
                   telemetry,
                   text, scope, validators_config, pc, sanitized_text, violations,
                   invalid_flags, ret, response>>

\* guardrail_factory.py 49-51: factory.unregister(type_key)
Unregister ==
    /\ pc = "registry"
    /\ i <= MaxCalls
    /\ \E k \in TypeKeys :
          /\ registry' = unregister(registry, k)
          /\ evals' = Append(evals, [idx |-> i, kind |-> "unregister", key |-> k,
                                     cls |-> "None"])
    /\ i' = i + 1
    /\ UNCHANGED <<caller, payload, available, guard_ok, catalog, guardrails, result,
                   telemetry,
                   text, scope, validators_config, pc, sanitized_text, violations,
                   invalid_flags, ret, response>>

\* guardrail_factory.py 57-59 and the instance's validate: create(config)
\* for a descriptor of some type, then validate(context, text)
Create ==
    /\ pc = "registry"
    /\ \E ty \in DescriptorTypes :
       \E gr \in {WithTop(AgentGuardrail(s_regex_match, Absent, Absent, <<"a">>, Absent),
                          "type", ty)} :
       \E cls \in {create(registry, gr)} :
       \E res \in {CheckValidate(cls, gr, text, available, guard_ok, catalog,
                                 [raises |-> FALSE, result |-> OtherResult])} :
          /\ guardrails' = <<gr>>
          /\ evals' = Append(evals, [idx |-> i, kind |-> "create", key |-> ty,
                                     cls |-> cls])
          /\ ret' = [text |-> res.text, details |-> res.details]
    /\ pc' = "done"
    /\ UNCHANGED <<caller, payload, available, guard_ok, catalog, registry, result,
                   telemetry,
                   text, scope, validators_config, i, sanitized_text, violations,
                   invalid_flags, response>>

NextRegistry ==
    \/ Register
    \/ Unregister
    \/ Create

SpecRegistry == InitRegistry /\ [][NextRegistry]_vars

(* regex_guardrail.py, blocklist_guardrail.py, pii_guardrail.py: the        *)
(* detection checks. A text is a sequence of tokens, each standing for one  *)
(* character or one run of word characters; offsets count tokens.           *)

\* the tokens that are not word characters (\W of re)
NonWordToks == {" ", ",", "\n", "+", "(", "[", "!"}

IsWordTok(t) == t \notin NonWordToks

\* \b of re at offset p of s: a word character on exactly one side
WordBoundary(s, p) ==
    (p >= 1 /\ IsWordTok(s[p])) # (p < Len(s) /\ IsWordTok(s[p + 1]))

\* a match span
Span(start, end, value) == [start |-> start, end |-> end, value |-> value]

\* the literal w matches s at offset p under IGNORECASE, between word
\* boundaries when wb
MatchAt(s, w, p, wb) ==
    /\ p + Len(w) <= Len(s)
    /\ Lower(SubSeq(s, p + 1, p + Len(w))) = Lower(w)
    /\ wb => WordBoundary(s, p) /\ WordBoundary(s, p + Len(w))

\* the first offset from `from` on where w matches
FirstMatch(s, w, from, wb) ==
    CHOOSE p \in from..Len(s) :
        MatchAt(s, w, p, wb) /\ \A q \in from..(p - 1) : ~MatchAt(s, w, q, wb)

\* a finditer that reports every offset where w matches, overlapping or not
RECURSIVE finditer_overlapping(_, _, _, _)
finditer_overlapping(s, w, from, wb) ==
    IF \E p \in from..Len(s) : MatchAt(s, w, p, wb)
    THEN <<Span(FirstMatch(s, w, from, wb), FirstMatch(s, w, from, wb) + Len(w),
                SubSeq(s, FirstMatch(s, w, from, wb) + 1,
                       FirstMatch(s, w, from, wb) + Len(w)))>>
         \o finditer_overlapping(s, w, FirstMatch(s, w, from, wb) + 1, wb)
    ELSE <<>>

\* rx.finditer(s) for a literal w: the matches from left to right, each
\* search starting where the previous match ended
RECURSIVE finditer(_, _, _, _)
finditer(s, w, from, wb) ==
    IF \E p \in from..Len(s) : MatchAt(s, w, p, wb)
    THEN <<Span(FirstMatch(s, w, from, wb), FirstMatch(s, w, from, wb) + Len(w),
                SubSeq(s, FirstMatch(s, w, from, wb) + 1,
                       FirstMatch(s, w, from, wb) + Len(w)))>>
         \o finditer(s, w, FirstMatch(s, w, from, wb)
                            + (IF Len(w) = 0 THEN 1 ELSE Len(w)), wb)
    ELSE <<>>

\* what a detection check's validate gives: it raised or returned text, and
\* the matches of its end event
Detected(user_input, matches) ==
    [raised |-> FALSE, text |-> user_input, matches |-> matches]

DetectRaised == [raised |-> TRUE, text |-> None, matches |-> <<>>]

\* regex_guardrail.py 15-27: no search for an empty pattern, re.error
\* swallowed, the input returned
RegexGuardrailValidate(config, user_input) ==
    IF ~Truthy(Get(config.top, "pattern")) THEN Detected(user_input, <<>>)
    ELSE IF ~RegexCompiles(Get(config.top, "pattern")) THEN Detected(user_input, <<>>)
    ELSE Detected(user_input, finditer(user_input, Get(config.top, "pattern"), 0, FALSE))

\* re.split(r"[,\n]", s)
RECURSIVE ReSplit(_)
ReSplit(s) ==
    IF \E j \in 1..Len(s) : s[j] \in {",", "\n"}
    THEN <<SubSeq(s, 1, (CHOOSE j \in 1..Len(s) :
                            /\ s[j] \in {",", "\n"}
                            /\ \A k \in 1..(j - 1) : s[k] \notin {",", "\n"}) - 1)>>
         \o ReSplit(SubSeq(s, (CHOOSE j \in 1..Len(s) :
                                  /\ s[j] \in {",", "\n"}
                                  /\ \A k \in 1..(j - 1) : s[k] \notin {",", "\n"}) + 1,
                           Len(s)))
    ELSE <<s>>

\* [w.strip().lower() for w in parts if w.strip()]
RECURSIVE StripLowerAll(_)
StripLowerAll(parts) ==
    IF parts = <<>> THEN <<>>
    ELSE IF Strip(Head(parts)) = <<>> THEN StripLowerAll(Tail(parts))
    ELSE <<Lower(Strip(Head(parts)))>> \o StripLowerAll(Tail(parts))

\* blocklist_guardrail.py 9-10
_parse_words(prompt) == StripLowerAll(ReSplit(Or(prompt, EmptyStr)))

\* str.find(w): the first offset of w in s
Find(s, w) ==
    CHOOSE p \in 0..(Len(s) - Len(w)) :
        /\ SubSeq(s, p + 1, p + Len(w)) = w
        /\ \A q \in 0..(p - 1) : SubSeq(s, q + 1, q + Len(w)) # w

\* blocklist_guardrail.py 38-40: the substring fallback, given the matches
\* collected so far
Fallback(w, user_input, matches) ==
    IF /\ Contains(Lower(user_input), w)
       /\ ~\E j \in 1..Len(matches) : Lower(matches[j].value) = w
    THEN Append(matches, Span(Find(Lower(user_input), w),
                              Find(Lower(user_input), w) + Len(w),
                              SubSeq(user_input, Find(Lower(user_input), w) + 1,
                                     Find(Lower(user_input), w) + Len(w))))
    ELSE matches

\* blocklist_guardrail.py 32-40: the loop over the words
RECURSIVE BlocklistScan(_, _, _)
BlocklistScan(words, user_input, matches) ==
    IF words = <<>> THEN matches
    ELSE BlocklistScan(Tail(words), user_input,
            Fallback(Head(words), user_input,
                     matches \o finditer(user_input, Head(words), 0, TRUE)))

\* blocklist_guardrail.py 20-42
BlocklistGuardrailValidate(config, user_input) ==
    Detected(user_input,
             BlocklistScan(_parse_words(Get(config.top, "pattern")), user_input, <<>>))

\* the PII toggles and the explicit list of config.params; params of None
\* is the empty mapping (line 49)
PIIParams(email, phone_number, phone, credit_card, is_list, pii_types) ==
    [email |-> email, phone_number |-> phone_number, phone |-> phone,
     credit_card |-> credit_card, is_list |-> is_list, pii_types |-> pii_types]

NoPIIParams == PIIParams(FALSE, FALSE, FALSE, FALSE, FALSE, <<>>)

\* pii_guardrail.py 16
DEFAULT_TYPES == <<<<"email">>, <<"credit", "_", "card">>, <<"ip">>, <<"url">>,
                   <<"api", "_", "key">>>>

\* pii_guardrail.py 52-55: the toggles
Toggled(params) ==
    (IF params.email THEN <<<<"email">>>> ELSE <<>>)
    \o (IF params.phone_number \/ params.phone
        THEN <<<<"phone", "_", "number">>>> ELSE <<>>)
    \o (IF params.credit_card THEN <<<<"credit", "_", "card">>>> ELSE <<>>)

\* pii_guardrail.py 49-64: the categories selected
Selected(config) ==
    LET chosen == IF config.params.is_list /\ config.params.pii_types # <<>>
                  THEN StripLowerAll(config.params.pii_types)
                  ELSE Toggled(config.params)
        split == StripLowerAll(ReSplit(Or(Get(config.top, "pattern"), EmptyStr)))
    IN  IF chosen # <<>> THEN chosen
        ELSE IF split # <<>> THEN split
        ELSE DEFAULT_TYPES

\* the category whose recognition pattern a token matches, if any
PIIKind(t) ==
    CASE t = "x@y.zz" -> <<"email">>
      [] t = "4111111111111" -> <<"credit", "_", "card">>
      [] t = "555-123-4567" -> <<"phone", "_", "number">>
      [] t = "1.2.3.4" -> <<"ip">>
      [] t = "http://x" -> <<"url">>
      [] t = "sk-0123456789abcdef0123456789abcdef" -> <<"api", "_", "key">>
      [] OTHER -> None

\* the categories of _detect in the order of its if statements, with the
\* names that switch each on
DetectOrder ==
    <<[type |-> <<"email">>, names |-> {<<"email">>}],
      [type |-> <<"credit", "_", "card">>, names |-> {<<"credit", "_", "card">>}],
      [type |-> <<"phone", "_", "number">>,
       names |-> {<<"phone", "_", "number">>, <<"phone">>, <<"phonenumber">>}],
      [type |-> <<"ip">>, names |-> {<<"ip">>}],
      [type |-> <<"url">>, names |-> {<<"url">>}],
      [type |-> <<"api", "_", "key">>, names |-> {<<"api", "_", "key">>}]>>

\* the spans of one category, from left to right
RECURSIVE SpansOfKind(_, _, _)
SpansOfKind(s, kind, p) ==
    IF p >= Len(s) THEN <<>>
    ELSE (IF PIIKind(s[p + 1]) = kind
          THEN <<[start |-> p, end |-> p + 1, value |-> <<s[p + 1]>>, type |-> kind]>>
          ELSE <<>>)
         \o SpansOfKind(s, kind, p + 1)

\* pii_guardrail.py 18-44
RECURSIVE _detect(_, _, _)
_detect(s, types, k) ==
    IF k > Len(DetectOrder) THEN <<>>
    ELSE (IF Range(types) \cap DetectOrder[k].names # {}
          THEN SpansOfKind(s, DetectOrder[k].type, 0) ELSE <<>>)
         \o _detect(s, types, k + 1)

\* guardrails/pii_guardrail.py 46-69
PIIGuardrailValidate(config, user_input) ==
    Detected(user_input, _detect(user_input, Selected(config), 1))

\* gr_integration/pii_guardrail.py 10-33: the class defines neither
\* DEFAULT_TYPES nor _detect, nor does its base class, so line 28 or line 30
\* ends in AttributeError
GrPIIGuardrailValidate(config, user_input) == DetectRaised


----------------------------------------------------------------------------
(* The detection checks on their own: validate of one check on one          *)
(* descriptor and one text                                                  *)

\* the texts: the empty text, one word in another case, a word inside a
\* longer word with and without the word on its own, a phrase that overlaps
\* itself, a term next to punctuation, and text holding PII
DetectTexts ==
    {<<>>,
     <<"Foo">>,
     <<"I", " ", "like", " ", "foo", " ", "and", " ", "bar", "stool">>,
     <<"foo", "bar", " ", "Bar", " ", "bar">>,
     <<"a", " ", "a", " ", "a">>,
     <<"c", "+", "+", " ", "foo", "!">>,
     <<"mail", " ", "x@y.zz", " ", "1.2.3.4", " ", "555-123-4567">>}

\* the regex sources: none, empty, literals, and sources that do not compile
RegexPatterns == {None, <<>>, <<"foo">>, <<"Bar">>, <<"a", " ", "a">>} \cup InvalidPatterns

\* the term lists: none, empty, separators only, by comma and by newline,
\* padded and in another case, a repeated term, a phrase, a term ending in
\* punctuation
BlocklistPatterns ==
    {None, <<>>, <<",", " ", "\n">>,
     <<"foo", ",", "bar">>,
     <<"Foo", "\n", " ", "Bar", " ">>,
     <<"bar", ",", "bar">>,
     <<"a", " ", "a">>,
     <<"c", "+", "+", ",", "stool">>}

\* the category lists of a PII descriptor's pattern
PIIPatterns == {None, <<>>, <<"email", ",", " ", "IP">>, <<"phone">>, <<"nothing">>}

\* the params of a PII descriptor: absent, toggles, an explicit list, an
\* empty list, a list of blanks
PIIParamsSet ==
    {NoPIIParams,
     PIIParams(TRUE, FALSE, FALSE, FALSE, FALSE, <<>>),
     PIIParams(FALSE, FALSE, TRUE, TRUE, FALSE, <<>>),
     PIIParams(TRUE, FALSE, FALSE, FALSE, TRUE, <<<<" ", "IP">>, <<"url">>>>),
     PIIParams(FALSE, TRUE, FALSE, FALSE, TRUE, <<>>),
     PIIParams(FALSE, FALSE, FALSE, FALSE, TRUE, <<<<" ">>>>)}

\* the descriptor of a detection check
DetectConfig(type, pattern, params) ==
    [top |-> AgentGuardrail(type, Absent, Absent, pattern, Absent).top, params |-> params]

DetectConfigs(cls) ==
    CASE cls = "RegexGuardrail" ->
            {DetectConfig(s_regex_match, p, NoPIIParams) : p \in RegexPatterns}
      [] cls = "BlocklistGuardrail" ->
            {DetectConfig(s_blocklist, p, NoPIIParams) : p \in BlocklistPatterns}
      [] OTHER ->
            {DetectConfig(s_detect_pii, p, q) : p \in PIIPatterns, q \in PIIParamsSet}

DetectClasses ==
    {"RegexGuardrail", "BlocklistGuardrail", "PIIGuardrail", "gr_integration.PIIGuardrail"}

InitDetect ==
    /\ caller \in DetectClasses
    /\ payload = NoPayload
    /\ available = TRUE
    /\ guard_ok = TRUE
    /\ catalog = NoCatalog
    /\ registry = DefaultRegistry
    /\ text \in DetectTexts
    /\ scope = None
    /\ validators_config = <<>>
    /\ guardrails \in {<<c>> : c \in DetectConfigs(caller)}
    /\ result = OtherResult
    /\ pc = "detect"
    /\ i = 1
    /\ sanitized_text = None
    /\ violations = <<>>
    /\ invalid_flags = <<>>
    /\ evals = <<>>
    /\ ret = NoRet
    /\ response = NoResponse
    /\ telemetry = "ok"

\* validate(context, text) has returned or raised
Validated(cls, out) ==
    /\ evals' = Append(evals, [idx |-> i, kind |-> "detect", cls |-> cls,
                               raised |-> out.raised, matches |-> out.matches])
    /\ ret' = [text |-> out.text, details |-> NoDetails]
    /\ pc' = IF out.raised THEN "raised" ELSE "done"
    /\ UNCHANGED <<inputs, text, scope, validators_config, i, sanitized_text,
                   violations, invalid_flags, response>>

\* regex_guardrail.py 15-27
RegexValidate ==
    /\ pc = "detect"
    /\ caller = "RegexGuardrail"
    /\ Validated(caller, RegexGuardrailValidate(guardrails[1], text))

\* blocklist_guardrail.py 20-42
BlocklistValidate ==
    /\ pc = "detect"
    /\ caller = "BlocklistGuardrail"
    /\ Validated(caller, BlocklistGuardrailValidate(guardrails[1], text))

\* guardrails/pii_guardrail.py 46-69
PIIValidate ==
    /\ pc = "detect"
    /\ caller = "PIIGuardrail"
    /\ Validated(caller, PIIGuardrailValidate(guardrails[1], text))

\* gr_integration/pii_guardrail.py 10-33
GrPIIValidate ==
    /\ pc = "detect"
    /\ caller = "gr_integration.PIIGuardrail"
    /\ Validated(caller, GrPIIGuardrailValidate(guardrails[1], text))

NextDetect ==
    \/ RegexValidate
    \/ BlocklistValidate
    \/ PIIValidate
    \/ GrPIIValidate

SpecDetect == InitDetect /\ [][NextDetect]_vars

----------------------------------------------------------------------------
(* base_guardrail.py 18-67, hub_guardrail.py 36-122: the notifications a    *)
(* check's validate sends, with a telemetry collaborator that may raise     *)

\* EventUtil.emit(event, ...) returns unless the collaborator raises on it
EmitReturns(tel, event) == tel # event

\* one call of EventUtil.emit and whether it returned
Emit(tel, event) == [event |-> event, returned |-> EmitReturns(tel, event)]

\* validate ended in the exception of an emit call
EmitRaised(calls) ==
    [raised |-> TRUE, text |-> None, details |-> NoDetails, calls |-> calls]

\* validate returned
ValidateReturned(res, calls) ==
    [raised |-> FALSE, text |-> res.text, details |-> res.details, calls |-> calls]

\* base_guardrail.py 55-67 and validate of the detection checks:
\* _emit_start, the check, _emit_end, return; neither call is guarded
GuardrailEmits(tel, res) ==
    IF ~EmitReturns(tel, "start") THEN EmitRaised(<<Emit(tel, "start")>>)
    ELSE IF ~EmitReturns(tel, "end")
    THEN EmitRaised(<<Emit(tel, "start"), Emit(tel, "end")>>)
    ELSE ValidateReturned(res, <<Emit(tel, "start"), Emit(tel, "end")>>)

\* a validate whose unavailable branch does not return after its _emit_end
HubGuardrailEmits_no_return(tel, avail, res) ==
    IF ~EmitReturns(tel, "start") THEN EmitRaised(<<Emit(tel, "start")>>)
    ELSE IF ~EmitReturns(tel, "end")
    THEN EmitRaised(<<Emit(tel, "start"), Emit(tel, "end")>>
                    \o (IF avail THEN <<>> ELSE <<Emit(tel, "end")>>))
    ELSE ValidateReturned(res, <<Emit(tel, "start"), Emit(tel, "end")>>
                               \o (IF avail THEN <<>> ELSE <<Emit(tel, "end")>>))

\* hub_guardrail.py 36-122: _emit_start (37) is outside the try; the
\* _emit_end of the unavailable branch (61) is inside it, so its exception
\* is caught (118-119) and _emit_end is called again (121), unguarded
HubGuardrailEmits(tel, avail, res) ==
    IF ~EmitReturns(tel, "start") THEN EmitRaised(<<Emit(tel, "start")>>)
    ELSE IF ~EmitReturns(tel, "end")
    THEN EmitRaised(<<Emit(tel, "start"), Emit(tel, "end")>>
                    \o (IF avail THEN <<>> ELSE <<Emit(tel, "end")>>))
    ELSE ValidateReturned(res, <<Emit(tel, "start"), Emit(tel, "end")>>)

\* validate of an instance of cls, with its notifications
ValidateEmits(cls, tel, avail, res) ==
    IF cls = "HubGuardrail" THEN HubGuardrailEmits(tel, avail, res)
    ELSE GuardrailEmits(tel, res)

\* the default registry, as it is or with the Regex detection check
\* registered for regex_match
TelemetryRegistries ==
    {DefaultRegistry, register(DefaultRegistry, s_regex_match, "RegexGuardrail")}

InitTelemetry ==
    /\ caller = "service"
    /\ payload = NoPayload
    /\ \E env \in Environments :
          /\ available = env.available
          /\ guard_ok = env.guard_ok
    /\ catalog \in {NoCatalog, HubCatalog}
    /\ registry \in TelemetryRegistries
    /\ text = <<"a">>
    /\ scope \in ScopeEnum
    /\ validators_config = <<>>
    /\ \E F \in ServiceFamilies : guardrails \in SeqsUpTo(F, MaxValidators)
    /\ result = OtherResult
    /\ pc = "service"
    /\ i = 1
    /\ sanitized_text = None
    /\ violations = <<>>
    /\ invalid_flags = <<>>
    /\ evals = <<>>
    /\ ret = NoRet
    /\ response = NoResponse
    /\ telemetry \in {"ok", "start", "end"}

\* guardrails_service.py 21-25: one iteration of the loop, with the emit
\* calls of the check; an exception of validate leaves the loop and
\* GuardrailsService.validate
ServiceGuardrailEmits ==
    /\ pc = "service_loop"
    /\ i <= Len(guardrails)
    /\ IF GetDefault(guardrails[i].top, "scope", E_BOTH) \in {scope, E_BOTH}
       THEN \E cls \in {create(registry, guardrails[i])} :
            \E out \in (IF cls = "HubGuardrail" THEN GuardOutcomes(sanitized_text)
                        ELSE {[raises |-> FALSE, result |-> OtherResult]}) :
            \E res \in {CheckValidate(cls, guardrails[i], sanitized_text, available,
                                      guard_ok, catalog, out)} :
            \E ev \in {ValidateEmits(cls, telemetry, available, res)} :
                /\ sanitized_text' = IF ev.raised THEN sanitized_text ELSE ev.text
                /\ evals' = Append(evals,
                        [idx |-> i, input |-> sanitized_text, kind |-> cls,
                         output |-> ev.text, details |-> ev.details,
                         raised |-> ev.raised, calls |-> ev.calls])
                /\ pc' = IF ev.raised THEN "raised" ELSE pc
       ELSE UNCHANGED <<sanitized_text, evals, pc>>
    /\ i' = i + 1
    /\ UNCHANGED <<inputs, text, scope, validators_config, violations,
                   invalid_flags, ret, response>>

NextTelemetry ==
    \/ ServiceEnter
    \/ ServiceGuardrailEmits
    \/ ServiceReturn

SpecTelemetry == InitTelemetry /\ [][NextTelemetry]_vars

----------------------------------------------------------------------------
(* guardrails_api_service.py: GuardrailsApiService.validate, the local      *)
(* stage followed by the hub validators                                     *)

\* str(x) of a descriptor field: the text, or "None"
Str(x) == IF x \in {None, Absent} THEN <<"None">> ELSE x

\* guardrails_api_service.py 29-56: the validator configuration built from a
\* descriptor
ApiValidatorCfg(gr) ==
    LET t_raw == Lower(Strip(Str(Get(gr.top, "type"))))
        t_lower == IF \E j \in 1..Len(t_raw) : t_raw[j] = "."
                   THEN SplitLast(t_raw, ".") ELSE t_raw
        sc_val == Get(gr.top, "scope")
        sc_str == Lower(IF HasValue(sc_val) THEN EnumValue(sc_val) ELSE Str(sc_val))
        c1 == Put(Put(EmptyDict, "type", t_lower), "scope", sc_str)
        c2 == IF Truthy(Get(gr.top, "hub_id"))
              THEN Put(c1, "hub_id", Get(gr.top, "hub_id")) ELSE c1
        c3 == IF Truthy(Get(gr.top, "pattern")) /\ t_lower = s_regex
              THEN Put(c2, "pattern", Get(gr.top, "pattern")) ELSE c2
        c4 == IF Truthy(Get(gr.top, "on_fail"))
              THEN Put(c3, "on_fail", Get(gr.top, "on_fail")) ELSE c3
    IN  [top |-> [k \in Keys |-> IF In(gr.params, k) THEN gr.params[k] ELSE c4[k]],
         params |-> EmptyDict]

\* guardrails_api_service.py 74-83: is_valid of the details hub.run returned
ApiIsValid(details) ==
    /\ "valid" \in details.keys => details.valid
    /\ ~("violations" \in details.keys /\ Len(details.violations) > 0)

\* the descriptors given to GuardrailsApiService.validate: regex_match and
\* regex with a pattern, under a scope given as enum member or as string, a
\* delegate-backed check under on_fail noop, and the type of a registered
\* rewriting check
ApiFamily ==
    {AgentGuardrail(ty, sc, Absent, <<"a">>, Absent) :
        ty \in {s_regex_match, s_regex}, sc \in {E_INPUT, E_BOTH, s_input, s_both}}
    \cup {AgentGuardrail(s_detect_pii, s_both, s_guardrails_slash \o s_detect_pii,
                         Absent, s_noop),
          AgentGuardrail(s_rewrite, E_BOTH, Absent, Absent, Absent)}

InitApi ==
    /\ caller = "api"
    /\ payload = NoPayload
    /\ \E env \in Environments :
          /\ available = env.available
          /\ guard_ok = env.guard_ok
    /\ catalog \in {NoCatalog, HubCatalog}
    /\ registry \in Registries
    /\ text \in {<<"a">>, None}
    /\ scope \in ScopeEnum
    /\ validators_config = <<>>
    /\ guardrails \in SeqsUpTo(ApiFamily, MaxValidators)
    /\ result = OtherResult
    /\ pc = "api"
    /\ i = 1
    /\ sanitized_text = None
    /\ violations = <<>>
    /\ invalid_flags = <<>>
    /\ evals = <<>>
    /\ ret = NoRet
    /\ response = NoResponse
    /\ telemetry = "ok"

\* guardrails_api_service.py 8-13 with gr_integration/guardrails_service.py
\* 17-23: the local stage. GuardrailsService of gr_integration defines no
\* _create_guardrail, so line 21 ends in AttributeError for the first
\* descriptor in scope; without one the stage returns its input.
ApiLocalStage ==
    /\ pc = "api"
    /\ IF \E j \in 1..Len(guardrails) :
             GetDefault(guardrails[j].top, "scope", E_BOTH) \in {scope, E_BOTH}
       THEN pc' = "raised" /\ ret' = ret
       ELSE pc' = "api_hub" /\ ret' = [text |-> Or(text, EmptyStr), details |-> NoDetails]
    /\ UNCHANGED <<inputs, text, scope, validators_config, i, sanitized_text,
                   violations, invalid_flags, evals, response>>

\* guardrails_api_service.py 16-68: processed_text is returned when the
\* library is unavailable; otherwise the configurations are built from every
\* descriptor and hub.run is called with `text or ""` and the scope's value
ApiHubStage ==
    /\ pc = "api_hub"
    /\ IF ~available \/ ~guard_ok
       THEN /\ pc' = "done"
            /\ UNCHANGED <<text, scope, validators_config>>
       ELSE /\ validators_config' =
                    [j \in 1..Len(guardrails) |-> ApiValidatorCfg(guardrails[j])]
            /\ text' = Or(text, EmptyStr)
            /\ scope' = Lower(EnumValue(scope))
            /\ pc' = "run"
    /\ UNCHANGED <<inputs, i, sanitized_text, violations, invalid_flags, evals, ret,
                   response>>

\* guardrails_api_service.py 74-87: ValueError when the details are judged
\* invalid, the text of hub.run otherwise
ApiReturn ==
    /\ pc = "api_return"
    /\ pc' = IF ApiIsValid(ret.details) THEN "done" ELSE "raised"
    /\ UNCHANGED <<inputs, text, scope, validators_config, i, sanitized_text,
                   violations, invalid_flags, evals, ret, response>>

NextApi ==
    \/ ApiLocalStage
    \/ ApiHubStage
    \/ RunEnter
    \/ RunValidator
    \/ RunReturn
    \/ ApiReturn

SpecApi == InitApi /\ [][NextApi]_vars

----------------------------------------------------------------------------
(* Claims *)

\* the positions of validators_config / guardrails the loop has passed
Passed == 1..(i - 1)

\* the history entries of position j
EvalsOf(j) == {e \in Range(evals) : e.idx = j}

Evaluated(j) == EvalsOf(j) # {}

\* the loop of run has been entered
InRun == caller \in {"run", "http", "parse"} /\ pc \in {"loop", "respond", "done"}

RunDone == caller \in {"run", "http", "parse"} /\ pc \in {"respond", "done"}

InService == caller = "service" /\ pc \in {"service_loop", "done"}

\* the scope a spelling stands for: none is both
ScopeName(raw) ==
    CASE raw \in {Absent, None} -> "both"
      [] raw \in {s_input, <<" ", "Input">>, E_INPUT} -> "input"
      [] raw \in {s_output, E_OUTPUT} -> "output"
      [] raw \in {s_both, E_BOTH} -> "both"

LoopRan == available /\ guard_ok

\* the validator at position j passes the scope filter of run
Eligible(j) ==
    LET D == ScopeName(validators_config[j].top["scope"])
    IN  D = ScopeName(scope) \/ D = "both"

\* the ways an iteration of run's loop ends, each going on to the next
\* validator
StepKinds ==
    {"missing_pattern", "not_found", "compile_error", "local_match",
     "local_nomatch", "exception", "passed", "failed"}

\* C2: whatever the validators do (missing pattern, unresolved capability,
\* delegate reports invalid, delegate raises), run never stops inside its
\* loop: every outcome of an iteration goes on to the next validator; every eligible
\* validator the loop has passed was evaluated exactly once, also after a
\* failing one; and run returns a text with a details mapping holding valid
\* and violations, after the whole list.
C2_NeverAborts ==
    /\ (caller \in {"run", "http"} /\ pc = "loop") =>
            /\ i \in 1..(Len(validators_config) + 1)
            /\ i <= Len(validators_config) =>
                  \A out \in GuardOutcomes(sanitized_text) :
                      ValidatorStep(validators_config[i], sanitized_text,
                                    catalog, out).kind \in StepKinds
    /\ InRun =>
            \A j \in Passed \cap DOMAIN validators_config :
                Eligible(j) => Cardinality(EvalsOf(j)) = 1
    /\ (RunDone /\ LoopRan) =>
            /\ i = Len(validators_config) + 1
            /\ ret.text # None
            /\ ret.details.keys = {"valid", "violations"}

\* run has returned after a validator whose delegate raised and a later
\* validator whose delegate reported invalid
C2_Witness ==
    /\ caller = "run" /\ pc = "done"
    /\ \E m, n \in DOMAIN evals :
          /\ m < n
          /\ evals[m].kind = "exception" /\ evals[m].flag
          /\ evals[n].kind = "failed"

\* run has returned after a validator without pattern and a later validator
\* that names no capability
C2_WitnessSkipped ==
    /\ caller = "run" /\ pc = "done"
    /\ \E m, n \in DOMAIN evals :
          /\ m < n
          /\ evals[m].kind = "missing_pattern"
          /\ evals[n].kind = "not_found"

\* the first string among the text-like entries of a mapping, or `default`
RECURSIVE KeyedText(_, _, _)
KeyedText(txt, keys, default) ==
    IF Len(keys) = 0 THEN default
    ELSE IF txt[Head(keys)] \notin {Absent, None} THEN txt[Head(keys)]
    ELSE KeyedText(txt, Tail(keys), default)

\* the delegate of history entry e ran and returned
Returned(e) == e.invoked /\ ~e.out.raises

\* the text the check of history entry e gave back: the text its delegate
\* returned, the text it was given when it returned none
ReturnedText(e) ==
    IF ~Returned(e) THEN e.input
    ELSE LET r == e.out.result
         IN  CASE r.shape = "tuple" /\ r.len >= 1 /\ r.first # None -> r.first
               [] r.shape = "dict" -> KeyedText(r.txt, TextKeys, e.input)
               [] r.shape = "str" -> r.first
               [] OTHER -> e.input

\* C3: checks run in descriptor order and the text is threaded: the first
\* eligible check receives the original text, each later one exactly the text
\* the eligible check before it returned, and the pipeline returns the text
\* the last eligible check returned (the original text if there is none).
\* In GuardrailsHubAdapter.run and in GuardrailsService.validate.
C3_Threading ==
    /\ \A m, n \in DOMAIN evals : m < n => evals[m].idx < evals[n].idx
    /\ InRun =>
          \A n \in DOMAIN evals :
              evals[n].input = IF n = 1 THEN text ELSE ReturnedText(evals[n - 1])
    /\ (RunDone /\ LoopRan) =>
          ret.text = IF evals = <<>> THEN text ELSE ReturnedText(evals[Len(evals)])
    /\ InService =>
          \A n \in DOMAIN evals :
              evals[n].input = IF n = 1 THEN text ELSE evals[n - 1].output
    /\ (caller = "service" /\ pc = "done") =>
          ret.text = IF evals = <<>> THEN text ELSE evals[Len(evals)].output

\* C4: the valid flag run returns is the conjunction of the validity signals
\* of the eligible validators, one signal each: valid is false exactly when
\* some eligible validator set an invalid flag, and true when none is eligible.
C4_ValidIsConjunction ==
    /\ InRun => Len(invalid_flags) = Len(evals)
    /\ (RunDone /\ LoopRan) =>
          /\ ret.details.valid = (\A n \in DOMAIN evals : ~evals[n].flag)
          /\ evals = <<>> => ret.details.valid

\* run has returned invalid after a validator that set an invalid flag and a
\* later one that did not
C4_Witness ==
    /\ caller = "run" /\ pc = "done" /\ ~ret.details.valid
    /\ \E m, n \in DOMAIN evals : m < n /\ evals[m].flag /\ ~evals[n].flag

\* the record of a delegate exception under on_fail noop
Tolerated(r) ==
    /\ "params" \in DOMAIN r
    /\ r.error = "str(err)"
    /\ GetDefault(r.params, "on_fail", s_exception) = s_noop

\* C5 as stated: in every result returned, at least one violation record
\* implies overall validity false, in details["valid"] and by _is_valid.
C5_ViolationImpliesInvalid ==
    (RunDone /\ Len(ret.details.violations) > 0) =>
        /\ ~ret.details.valid
        /\ ~_is_valid(ret.details)

\* C5 amended: in every result returned, a violation record other than that
\* of a delegate exception under on_fail noop implies overall validity false,
\* in details["valid"] and by _is_valid.
C5_UntoleratedViolationImpliesInvalid ==
    (RunDone /\ \E n \in DOMAIN ret.details.violations :
                    ~Tolerated(ret.details.violations[n])) =>
        /\ ~ret.details.valid
        /\ ~_is_valid(ret.details)

\* run has returned invalid with the record of a tolerated exception and the
\* record of a failed validator
C5_Witness ==
    /\ caller = "run" /\ pc = "done" /\ ~ret.details.valid
    /\ \E m, n \in DOMAIN ret.details.violations :
          /\ Tolerated(ret.details.violations[m])
          /\ ret.details.violations[n].error = "validator_failed"

\* the on_fail of a validator: the one of its nested params, else its own,
\* else "exception"
OnFailOf(v) ==
    IF In(v.params, "on_fail") THEN v.params["on_fail"]
    ELSE Or(Get(v.top, "on_fail"), s_exception)

\* C6: when the delegate of a validator raises, one violation record is
\* appended for that validator; under on_fail noop the exception sets no
\* invalid flag, so that a result with no other failure stays valid; under
\* any other on_fail, the default included, the result is invalid.
C6_ExceptionPolicy ==
    /\ InRun =>
          \A n \in DOMAIN evals :
              (evals[n].invoked /\ evals[n].out.raises) =>
                  LET v == validators_config[evals[n].idx]
                  IN  /\ Len(evals[n].violations) = 1
                      /\ evals[n].violations[1].error = "str(err)"
                      /\ evals[n].violations[1].type = Or(Get(v.top, "type"), s_unknown)
                      /\ evals[n].flag = (OnFailOf(v) # s_noop)
    /\ (RunDone /\ LoopRan) =>
          /\ (\E n \in DOMAIN evals :
                 /\ evals[n].invoked /\ evals[n].out.raises
                 /\ OnFailOf(validators_config[evals[n].idx]) # s_noop)
             => ~ret.details.valid
          /\ (\A n \in DOMAIN evals :
                 /\ evals[n].invoked /\ evals[n].out.raises
                 /\ OnFailOf(validators_config[evals[n].idx]) = s_noop)
             => ret.details.valid

\* run has returned valid, with a violation record, after a delegate raised
\* under a nested on_fail noop
C6_Witness ==
    /\ caller = "run" /\ pc = "done" /\ ret.details.valid
    /\ Len(ret.details.violations) > 0
    /\ \E n \in DOMAIN evals :
          /\ evals[n].invoked /\ evals[n].out.raises
          /\ validators_config[evals[n].idx].params["on_fail"] = s_noop

\* the loop of the former adapter's run has been entered
InLegacy == caller = "legacy" /\ pc \in {"legacy_loop", "done"}

IdentifierOf(v) == Or(Get(v.top, "hub_id"), Or(Get(v.top, "type"), EmptyStr))

\* the descriptor is regex-shaped: its type is regex or regex_match, or its
\* hub_id ends in regex or regex_match
RegexShaped(v) ==
    LET t == Lower(Strip(Or(Get(v.top, "type"), EmptyStr)))
        h == Lower(Strip(Or(Get(v.top, "hub_id"), EmptyStr)))
    IN  \/ t = <<"regex">> \/ t = <<"regex", "_", "match">>
        \/ (h # <<>> /\ h[Len(h)] = "regex")
        \/ (Len(h) >= 3 /\ SubSeq(h, Len(h) - 2, Len(h)) = <<"regex", "_", "match">>)

\* the descriptor holds no non-empty pattern
NoPattern(v) ==
    /\ ~Truthy(Get(v.top, "pattern")) /\ ~Truthy(Get(v.top, "Pattern"))
    /\ ~Truthy(Get(v.params, "pattern")) /\ ~Truthy(Get(v.params, "regex"))

C7_WitnessLegacy ==
    /\ caller = "legacy" /\ pc = "done"
    /\ \E m, n \in DOMAIN evals :
          /\ m < n
          /\ ~evals[m].resolved /\ evals[m].kind = "skipped"
          /\ evals[n].invoked

\* C8: for every eligible regex-shaped validator without a non-empty pattern
\* the delegate is never invoked, one violation record with error
\* validator_missing_pattern is recorded, and the result is invalid whatever
\* the validator's on_fail (a 422 response at the HTTP boundary).
C8_MissingPattern ==
    /\ InRun =>
          \A n \in DOMAIN evals :
              LET e == evals[n]
                  v == validators_config[e.idx]
              IN  (RegexShaped(v) /\ NoPattern(v)) =>
                      /\ ~e.invoked
                      /\ e.kind = "missing_pattern"
                      /\ Len(e.violations) = 1
                      /\ e.violations[1].error = "validator_missing_pattern"
                      /\ e.flag
    /\ (RunDone /\ \E n \in DOMAIN evals :
                      LET v == validators_config[evals[n].idx]
                      IN  RegexShaped(v) /\ NoPattern(v)) =>
          /\ ~ret.details.valid
          /\ (caller = "http" /\ pc = "done") => response.status = 422

\* run has returned invalid after a validator regex-shaped by its hub_id,
\* without pattern, and one regex-shaped by type under on_fail noop was
\* recorded as missing its pattern
C8_Witness ==
    /\ caller = "run" /\ pc = "done" /\ ~ret.details.valid
    /\ \E n \in DOMAIN evals :
          /\ evals[n].kind = "missing_pattern"
          /\ \/ validators_config[evals[n].idx].top["on_fail"] = s_noop
             \/ validators_config[evals[n].idx].top["type"] = Absent

\* the validity a result reports: its second element for a tuple, the value
\* of its first validity-like entry for a mapping, "Absent" when it has none
RECURSIVE KeyedValidity(_, _)
KeyedValidity(val, keys) ==
    IF Len(keys) = 0 THEN "Absent"
    ELSE IF val[Head(keys)] # "Absent" THEN val[Head(keys)]
    ELSE KeyedValidity(val, Tail(keys))

ReportedValidity(r) ==
    CASE r.shape = "tuple" /\ r.len >= 2 /\ r.second \in {"True", "False"} -> r.second
      [] r.shape = "dict" -> KeyedValidity(r.val, ValidKeys)
      [] OTHER -> "Absent"

\* the delegate of history entry e ran and reported invalid
ReportsInvalid(e) == Returned(e) /\ ReportedValidity(e.out.result) = "False"

\* C9: when a delegate runs and reports invalid, exactly one violation record
\* is recorded for that validator, with error validator_failed, and the
\* result is invalid, whatever the validator's on_fail; POST /validate then
\* answers 422 with the message and that list of violations.
C9_DelegateInvalid ==
    /\ InRun =>
          \A n \in DOMAIN evals :
              ReportsInvalid(evals[n]) =>
                  LET v == validators_config[evals[n].idx]
                  IN  /\ Len(evals[n].violations) = 1
                      /\ evals[n].violations[1].error = "validator_failed"
                      /\ evals[n].violations[1].type = Or(Get(v.top, "type"), s_unknown)
                      /\ evals[n].flag
    /\ (RunDone /\ \E n \in DOMAIN evals : ReportsInvalid(evals[n])) =>
          /\ ~ret.details.valid
          /\ \E k \in DOMAIN ret.details.violations :
                ret.details.violations[k].error = "validator_failed"
          /\ (caller = "http" /\ pc = "done") =>
                /\ response.status = 422
                /\ response.message = "Guardrail validation failed"
                /\ response.details.violations = ret.details.violations

\* POST /validate has answered 422 after the delegate of a validator under
\* on_fail noop reported invalid
C9_Witness ==
    /\ caller = "http" /\ pc = "done" /\ response.status = 422
    /\ \E n \in DOMAIN evals :
          /\ ReportsInvalid(evals[n])
          /\ validators_config[evals[n].idx].top["on_fail"] = s_noop

\* C10: the delegate's return value is normalised to (sanitized_text,
\* is_valid): a tuple gives its first element as text and its second as
\* validity; a mapping gives the value of its text-like entry as text, the
\* empty string included, and the value of its validity-like entry as
\* validity; a bare string is the text with is_valid true; and is_valid is
\* true when the result holds no validity signal.
C10_Normalization ==
    InRun =>
        \A n \in DOMAIN evals :
            Returned(evals[n]) =>
                /\ evals[n].output = ReturnedText(evals[n])
                /\ (evals[n].kind = "passed")
                      = (ReportedValidity(evals[n].out.result) # "False")
                /\ (evals[n].kind = "failed")
                      = (ReportedValidity(evals[n].out.result) = "False")

\* the identifier a validator is resolved by: its hub_id when it has one, its
\* type otherwise, lower-cased and stripped
ResolveKey(v) ==
    IF Truthy(Lower(Strip(Or(Get(v.top, "hub_id"), EmptyStr))))
    THEN Lower(Strip(Get(v.top, "hub_id")))
    ELSE Lower(Strip(Or(Get(v.top, "type"), EmptyStr)))

\* its last path segment in snake_case
ResolveBase(v) == SplitLast(SplitLast(Replace(ResolveKey(v), "-", "_"), "/"), ":")

\* the class names known for a snake_case name
AliasesOf(base) ==
    CASE base = s_regex_match -> {<<"Regex", "Match">>}
      [] base = s_valid_json -> {<<"Valid", "JSON">>}
      [] base = s_toxic_language -> {<<"Toxic", "Language">>}
      [] base = s_detect_pii -> {<<"Detect", "PII">>}
      [] OTHER -> {}

\* the generated name candidates: snake_case, PascalCase and aliases
NameCandidates(v) == {ResolveBase(v), Pascal(ResolveBase(v))} \cup AliasesOf(ResolveBase(v))

\* where a resolved class was found: "hub", "validators", "plugin" or "load"
FoundIn(cls) == IF cls = None THEN "nowhere" ELSE cls[2]

\* the strategy that is first to yield a capability for v in the catalog, the
\* names looked up being `names`
FirstStrategy(v, names) ==
    LET plugin_name == <<"guardrails_grhub_">> \o SplitLast(Replace(ResolveKey(v), "-", "_"), "/")
        target == IF Truthy(Get(v.top, "hub_id")) THEN ResolveKey(v)
                  ELSE s_guardrails_slash \o SplitLast(Replace(ResolveKey(v), "-", "_"), "/")
    IN  IF catalog.hub_ok /\ names \cap catalog.hub # {} THEN "hub"
        ELSE IF catalog.validators_ok /\ names \cap catalog.validators # {}
        THEN "validators"
        ELSE IF \E p \in catalog.plugins : p.name = plugin_name /\ names \cap p.attrs # {}
        THEN "plugin"
        ELSE IF /\ catalog.hub_ok /\ catalog.has_load /\ ~catalog.load_raises
                /\ ResolveKey(v) # <<>>
                /\ {target, <<"hub://">> \o target} \cap catalog.loadable # {}
        THEN "load"
        ELSE "nowhere"

\* C11: the resolver yields the capability of the first strategy that has
\* one, in the order (1) the generated name candidates (snake_case, PascalCase
\* and aliases) in the catalog namespaces, (2) the plugin module named after
\* the slug, (3) the dynamic load by identifier; the candidates come from the
\* hub_id when there is one and from the type otherwise; and a strategy that
\* fails or raises yields absent.  In both adapters.
C11_ResolutionOrder ==
    caller \in {"resolve", "legacy_resolve"} =>
        \A e \in Range(evals) :
            FoundIn(e.cls) = FirstStrategy(validators_config[e.idx],
                                           NameCandidates(validators_config[e.idx]))

\* the reserved keys a parameter set is said never to hold ("params" is no
\* key of a parameter set here: its values are strings)
NeverForwarded == {"type", "scope", "hub_id"}

\* C12: the parameter set passed to a delegate holds every non-reserved
\* top-level field of the validator configuration and every entry of its
\* nested params mapping, each with its value, and none of the reserved keys
\* type, scope, hub_id, params; also for the configurations the API layer
\* builds from a request.
C12_ParamsForwarded ==
    InRun =>
        \A e \in Range(evals) :
            e.invoked =>
                LET v == validators_config[e.idx]
                IN  /\ \A k \in Keys \ Reserved :
                          In(v.top, k) => e.params[k] = v.top[k]
                    /\ \A k \in Keys : In(v.params, k) => e.params[k] = v.params[k]
                    /\ \A k \in NeverForwarded : ~In(e.params, k)

\* the ways an eligible validator fails, and the error of its record
FailKinds == {"missing_pattern", "not_found", "compile_error", "local_nomatch",
              "failed", "exception"}

FailTag(kind) ==
    CASE kind = "missing_pattern" -> "validator_missing_pattern"
      [] kind = "not_found" -> "validator_not_found"
      [] kind = "compile_error" -> "validator_regex_compile_error: re.error"
      [] kind \in {"local_nomatch", "failed"} -> "validator_failed"
      [] kind = "exception" -> "str(err)"
      [] OTHER -> ""

\* the records of the history entries, in the order of the entries
RECURSIVE RecordsOf(_)
RecordsOf(es) ==
    IF es = <<>> THEN <<>> ELSE Head(es).violations \o RecordsOf(Tail(es))

\* C13: the violations list of run is in evaluation (descriptor) order and
\* holds exactly one record for each eligible validator that failed (missing
\* pattern, not found, regex compile error, reported invalid, raised), the
\* record naming that validator's type and scope and the error of the
\* failure, and no record for a validator that passed or was filtered out.
C13_ViolationsInOrder ==
    (InRun /\ LoopRan) =>
        /\ \A n \in DOMAIN evals : \A m \in DOMAIN evals :
              n < m => evals[n].idx < evals[m].idx
        /\ \A j \in Passed \cap DOMAIN validators_config : ~Eligible(j) => ~Evaluated(j)
        /\ \A e \in Range(evals) :
              /\ Len(e.violations) = IF e.kind \in FailKinds THEN 1 ELSE 0
              /\ e.kind \in FailKinds =>
                    /\ e.violations[1].error = FailTag(e.kind)
                    /\ e.violations[1].type =
                          Or(Get(validators_config[e.idx].top, "type"), s_unknown)
                    /\ e.violations[1].scope =
                          Or(Get(validators_config[e.idx].top, "scope"), s_both)
        /\ violations = RecordsOf(evals)
        /\ RunDone => ret.details.violations = violations

\* run has returned two records with different errors, which two validators
\* produced in that order
C13_Witness ==
    /\ RunDone /\ LoopRan
    /\ Len(ret.details.violations) = 2
    /\ Len(evals) = 2
    /\ ret.details.violations[1].error = FailTag(evals[1].kind)
    /\ ret.details.violations[2].error = FailTag(evals[2].kind)
    /\ ret.details.violations[1].error # ret.details.violations[2].error

\* details.get("valid", True) and details.get("violations", [])
ValidOf(details) == "valid" \in details.keys => details.valid

ViolationsOf(details) ==
    IF "violations" \in details.keys THEN details.violations ELSE <<>>

\* run was called with no validators and has returned
RunOfNone == caller = "run" /\ validators_config = <<>> /\ pc = "done"

\* POST /validate was called with no validators, and _run_hub_validators has
\* returned
HttpOfNone == caller = "http" /\ payload.validators = <<>> /\ pc \in {"respond", "done"}

\* C14 as stated: with zero descriptors, run returns the text, valid true and
\* no violations, and so does _run_hub_validators followed by _is_valid,
\* whether or not the library is available.
C14_ZeroDescriptors ==
    /\ RunOfNone =>
          /\ ret.text = text
          /\ ValidOf(ret.details)
          /\ ViolationsOf(ret.details) = <<>>
    /\ HttpOfNone =>
          /\ ret.text = payload.text
          /\ _is_valid(ret.details)
          /\ ViolationsOf(ret.details) = <<>>

\* C14 amended: with zero descriptors, run returns the text and details
\* with no valid = false and no violation, whether or not the library is
\* available (the details are empty when it is not, and hold valid = true and
\* an empty list when the loop was reached); _run_hub_validators returns the
\* text, and with the library available and Guard importable details that
\* _is_valid accepts and an empty violations list, otherwise details that
\* _is_valid rejects with the one violation hub_unavailable.
C14_ZeroDescriptorsWhenAvailable ==
    /\ RunOfNone =>
          /\ ret.text = text
          /\ ValidOf(ret.details)
          /\ ViolationsOf(ret.details) = <<>>
          /\ ~available => ret.details.keys = {}
          /\ LoopRan => ret.details.keys = {"valid", "violations"}
    /\ HttpOfNone =>
          /\ ret.text = payload.text
          /\ LoopRan =>
                /\ _is_valid(ret.details)
                /\ ret.details.keys = {"valid", "violations"}
                /\ ret.details.violations = <<>>
                /\ pc = "done" => response.status = 200 /\ response.text = payload.text
          /\ ~LoopRan =>
                /\ ~_is_valid(ret.details)
                /\ Len(ret.details.violations) = 1
                /\ ret.details.violations[1].error = "hub_unavailable"

\* POST /validate without validators has answered 200 with the text
C14_Witness ==
    /\ HttpOfNone /\ LoopRan /\ pc = "done"
    /\ response.status = 200
    /\ response.text = payload.text

\* the normalized type key as the registry's contract has it: lower-cased,
\* the dotted prefix stripped, no surrounding whitespace; no type is ""
NormalForm(k) == Strip(SplitLast(Lower(Strip(Or(k, EmptyStr))), "."))

\* what the calls logged in `log` leave registered under the normal form nk,
\* "None" when nothing: the most recent register or unregister of a key of
\* that normal form decides, the registry the factory started with otherwise
RECURSIVE Latest(_, _)
Latest(log, nk) ==
    LET e == log[Len(log)]
    IN  IF e.kind = "init"
        THEN IF nk \in DOMAIN e.registry THEN e.registry[nk] ELSE "None"
        ELSE IF e.kind \in {"register", "unregister"} /\ NormalForm(e.key) = nk
        THEN e.cls
        ELSE Latest(SubSeq(log, 1, Len(log) - 1), nk)

\* the register, unregister and create calls made so far
InRegistry == caller = "registry"

\* the last call was create(descriptor)
Created == InRegistry /\ pc = "done"

\* C15: in the registry state any sequence of register and unregister calls
\* leaves, create for a descriptor whose type no entry of the registry
\* stands for (type pii under the default registrations and a descriptor
\* without type included) yields the pass-through base check, whose validate
\* returns its input text unchanged.
C15_CreateFallsBack ==
    Created =>
        LET e == evals[Len(evals)]
        IN  (\A k \in DOMAIN registry : NormalForm(k) # NormalForm(e.key)) =>
                /\ e.cls = "Guardrail"
                /\ ret.text = text

\* detect_pii was unregistered from the default registry and a descriptor of
\* that type was then created and validated
C15_Witness ==
    /\ Created
    /\ evals[1].registry = DefaultRegistry
    /\ \E n \in DOMAIN evals : evals[n].kind = "unregister" /\ evals[n].key = s_detect_pii
    /\ evals[Len(evals)].key = s_detect_pii
    /\ evals[Len(evals)].cls = "Guardrail"
    /\ ret.text = text

\* C16: the registry is a map keyed by the normalized type key (lower-cased,
\* surrounding whitespace removed, dotted prefix stripped): get(k) is the
\* class of the most recent register of a key of k's normal form that no
\* unregister of such a key followed, and absent otherwise; normalization
\* yields that normal form and is idempotent; keys that differ by case or by
\* a dotted prefix address one entry; unregistering an absent key changes
\* nothing.
C16_RegistryIsMap ==
    InRegistry =>
        \A k \in TypeKeys :
            /\ get(registry, k) = Latest(evals, NormalForm(k))
            /\ \A e \in Range(evals) :
                  e.kind \in {"register", "unregister", "create"} /\ e.key = k =>
                      /\ _normalize_type_key(k) = NormalForm(k)
                      /\ _normalize_type_key(_normalize_type_key(k)) =
                            _normalize_type_key(k)
            /\ \A k2 \in TypeKeys :
                  NormalForm(k2) = NormalForm(k) => get(registry, k2) = get(registry, k)
            /\ Latest(evals, NormalForm(k)) = "None" => unregister(registry, k) = registry

----------------------------------------------------------------------------
\* the descriptor's pattern is a regex source that does not compile
InvalidRegex == Get(guardrails[1].top, "pattern") \in InvalidPatterns

\* C17: for every text and descriptor, validate of the Regex, Blocklist and
\* PII detection checks completes without raising and returns exactly the
\* input text, and an invalid regex pattern yields zero matches.
C17_DetectionReturnsInput ==
    caller \in DetectClasses /\ pc # "detect" =>
        /\ pc = "done"
        /\ ret.text = text
        /\ \A e \in Range(evals) :
              /\ ~e.raised
              /\ caller = "RegexGuardrail" /\ InvalidRegex => e.matches = <<>>

----------------------------------------------------------------------------
\* the blocklist check has run on text; its terms and the spans it reported
BlocklistDone == caller = "BlocklistGuardrail" /\ pc = "done"

Terms == Range(_parse_words(Get(guardrails[1].top, "pattern")))

Reported == {[start |-> m.start, end |-> m.end] : m \in Range(evals[1].matches)}

\* the offsets where term w occurs in text as a whole word, in any case
WholeWordAt(w) == {p \in 0..Len(text) : MatchAt(text, w, p, TRUE)}

\* the offsets where term w occurs in the lower-cased text
OccursAt(w) ==
    {p \in 0..(Len(text) - Len(w)) : SubSeq(Lower(text), p + 1, p + Len(w)) = w}

Min(S) == CHOOSE p \in S : \A q \in S : p <= q

\* a span was reported at offset p for term w
ReportedAt(w, p) == [start |-> p, end |-> p + Len(w)] \in Reported

\* the span of the substring fallback was reported for term w
FallbackReported(w) ==
    OccursAt(w) # {} /\ Min(OccursAt(w)) \notin WholeWordAt(w)
                     /\ ReportedAt(w, Min(OccursAt(w)))

\* every reported span is a whole-word occurrence of a term or the first
\* occurrence of a term
OnlyTermSpans ==
    \A m \in Reported : \E w \in Terms :
        /\ m.end = m.start + Len(w)
        /\ m.start \in WholeWordAt(w) \/ (OccursAt(w) # {} /\ m.start = Min(OccursAt(w)))

----------------------------------------------------------------------------
\* C19: when the telemetry collaborator raises on the validation-start or
\* the validation-end notification of a check, the check still completes
\* and returns its text, and the pipeline goes on with the remaining
\* descriptors: no validate ends in the collaborator's exception, and
\* GuardrailsService.validate is not left by it.
C19_TelemetryFireAndForget ==
    caller = "service" =>
        /\ pc # "raised"
        /\ \A e \in Range(evals) : "raised" \in DOMAIN e => ~e.raised

----------------------------------------------------------------------------
\* C20: when the third-party library is unavailable, run returns its text
\* with no violations and no valid = false without evaluating any validator,
\* and HubGuardrail.validate returns its input with an empty violations list,
\* for every list of validators, neither raising; _run_hub_validators alone
\* signals it: its result is invalid with the one violation hub_unavailable,
\* and POST /validate answers 422.
C20_LibraryUnavailable ==
    ~available =>
        /\ caller = "run" =>
              /\ pc \in {"run", "done"}
              /\ evals = <<>>
              /\ pc = "done" =>
                    /\ ret.text = text
                    /\ ValidOf(ret.details)
                    /\ ViolationsOf(ret.details) = <<>>
        /\ caller = "service" =>
              /\ pc \in {"service", "service_loop", "done"}
              /\ \A e \in Range(evals) :
                    e.kind = "HubGuardrail" =>
                        /\ e.output = e.input
                        /\ ValidOf(e.details)
                        /\ ViolationsOf(e.details) = <<>>
        /\ caller = "http" =>
              /\ pc \in {"http", "respond", "done"}
              /\ evals = <<>>
              /\ pc \in {"respond", "done"} =>
                    /\ ret.text = payload.text
                    /\ ~_is_valid(ret.details)
                    /\ Len(ret.details.violations) = 1
                    /\ ret.details.violations[1].error = "hub_unavailable"
              /\ pc = "done" => response.status = 422

\* without the library, the service has run two delegate-backed checks and
\* returned its input
C20_Witness ==
    /\ caller = "service" /\ ~available /\ pc = "done"
    /\ Len(evals) = 2
    /\ \A n \in 1..2 : evals[n].kind = "HubGuardrail"
    /\ ret.text = text

----------------------------------------------------------------------------
\* C21: every Violation Record of a result returned by run has the fields
\* type, scope, params and error, and its params hold the on_fail entry and
\* nothing else, whichever failure produced the record.
C21_RecordsRedacted ==
    (caller = "run" /\ pc = "done") =>
        \A k \in DOMAIN ViolationsOf(ret.details) :
            /\ DOMAIN ret.details.violations[k] = {"type", "scope", "params", "error"}
            /\ KeysOf(ret.details.violations[k].params) \subseteq {"on_fail"}

----------------------------------------------------------------------------
\* history entry e is of a regex validator with a non-empty pattern
RegexWithPattern(e) ==
    /\ RegexShaped(validators_config[e.idx])
    /\ Truthy(PatternOf(validators_config[e.idx]))

\* the delegate of history entry e returned its rewrite of the text it was
\* given, as valid
RewroteValid(e) ==
    Returned(e) /\ e.out.result = TupleResult(2, Rewritten(e.input), "True")

\* C22: with the library available, the delegate of every in-scope regex
\* validator with a non-empty pattern is invoked on the current text, and
\* when it returns a rewrite as valid that rewrite is the text threaded on;
\* when every evaluated validator did so, run returns the last rewrite with
\* valid = true and POST /validate answers 200 with it; a validator out of
\* scope is not evaluated, so the text holds one rewrite per in-scope
\* validator only.
C22_RegexDelegateRewrites ==
    (caller \in {"run", "http"} /\ InRun) =>
        /\ \A n \in DOMAIN evals :
              /\ Eligible(evals[n].idx)
              /\ evals[n].input = (IF n = 1 THEN text ELSE evals[n - 1].output)
              /\ RegexWithPattern(evals[n]) =>
                    /\ evals[n].invoked
                    /\ RewroteValid(evals[n]) => evals[n].output = Rewritten(evals[n].input)
        /\ (RunDone /\ evals # <<>> /\ \A n \in DOMAIN evals : RewroteValid(evals[n])) =>
              /\ ret.text = evals[Len(evals)].output
              /\ Len(ret.text) = Len(text) + Len(evals)
              /\ ret.details.valid
              /\ (caller = "http" /\ pc = "done") =>
                    response.status = 200 /\ response.text = ret.text /\ response.valid

----------------------------------------------------------------------------
\* history entry e is of a regex-shaped validator whose pattern does not
\* compile
RegexWithInvalidPattern(e) ==
    /\ RegexShaped(validators_config[e.idx])
    /\ PatternOf(validators_config[e.idx]) \in InvalidPatterns

\* C23: every eligible regex-shaped validator whose pattern is not a valid
\* regular expression is evaluated without raising, counts as invalid and
\* leaves a Violation Record tagged validator_regex_compile_error, whether
\* or not a delegate class was resolved and whatever its on_fail; the
\* result of run is then invalid and holds that record.
C23_InvalidPatternIsViolation ==
    (caller \in {"run", "http"} /\ InRun) =>
        /\ \A n \in DOMAIN evals :
              RegexWithInvalidPattern(evals[n]) =>
                  /\ evals[n].flag
                  /\ \E j \in DOMAIN evals[n].violations :
                        evals[n].violations[j].error
                            = "validator_regex_compile_error: re.error"
        /\ (RunDone /\ \E n \in DOMAIN evals : RegexWithInvalidPattern(evals[n])) =>
              /\ ~ret.details.valid
              /\ \E k \in DOMAIN ret.details.violations :
                    ret.details.violations[k].error
                        = "validator_regex_compile_error: re.error"


\* a descriptor of type regex_match with a non-empty pattern
RegexMatchWithPattern(gr) ==
    Get(gr.top, "type") = s_regex_match /\ Truthy(Get(gr.top, "pattern"))

\* the configuration carries the pattern of the descriptor
CarriesPattern(cfg, gr) == Get(cfg.top, "pattern") = Get(gr.top, "pattern")

\* C24: for every descriptor of type regex_match with a non-empty pattern, the
\* validator configuration HubGuardrail.validate and
\* GuardrailsApiService.validate build for the adapter carries that pattern,
\* and the adapter records no validator_missing_pattern for the descriptor.
C24_PatternForwarded ==
    caller = "service" =>
        \A j \in 1..Len(evals) :
            (evals[j].kind = "HubGuardrail"
                /\ RegexMatchWithPattern(guardrails[evals[j].idx])) =>
                /\ CarriesPattern(HubValidatorCfg(guardrails[evals[j].idx]),
                                  guardrails[evals[j].idx])
                /\ CarriesPattern(ApiValidatorCfg(guardrails[evals[j].idx]),
                                  guardrails[evals[j].idx])
                /\ \A r \in 1..Len(evals[j].details.violations) :
                      evals[j].details.violations[r].error # "validator_missing_pattern"


\* the text the hub stage ends with: the output of the last validator that
\* was evaluated, the text the stage was given when none was
LastRewritten == IF evals = <<>> THEN text ELSE evals[Len(evals)].output

\* C25: in GuardrailsApiService.validate the two stages compose: the local
\* stage hands a text on (whatever the registry holds), hub.run is given that
\* text, and the text returned in the end is the last rewritten value of the
\* pipeline.
C25_StagesCompose ==
    [][caller = "api" =>
        /\ pc = "api" => (pc' = "api_hub" /\ ret'.text # None)
        /\ (pc = "api_hub" /\ pc' = "run") => text' = ret.text
        /\ (pc = "api_return" /\ pc' = "done") => ret.text = LastRewritten]_vars


\* run has returned details that say valid = false, the library being
\* available
RunInvalid ==
    /\ caller = "run"
    /\ pc = "done"
    /\ available
    /\ "valid" \in ret.details.keys
    /\ ~ret.details.valid

\* C26: in every result of run with the library available, valid = false
\* implies that the violations list is not empty.
C26_InvalidHasViolations == RunInvalid => Len(ViolationsOf(ret.details)) > 0

\* run returned valid = false with a record for the validator that failed
C26_Witness ==
    /\ RunInvalid
    /\ Len(ViolationsOf(ret.details)) > 0
    /\ \E n \in DOMAIN evals : evals[n].flag /\ evals[n].violations # <<>>


\* C27: for every details mapping run returns, main._is_valid judges it
\* invalid exactly when GuardrailsApiService.validate would raise its
\* validation-failed error for it.
C27_CallersJudgeAlike ==
    (caller = "run" /\ pc = "done") => (_is_valid(ret.details) <=> ApiIsValid(ret.details))


\* the notifications sent so far, in the order they were sent
RECURSIVE Emitted(_)
Emitted(es) == IF es = <<>> THEN <<>> ELSE Head(es).calls \o Emitted(Tail(es))

\* descriptor j is in the scope of the call
InServiceScope(j) == GetDefault(guardrails[j].top, "scope", E_BOTH) \in {scope, E_BOTH}

\* GuardrailsService.validate is in its loop or has returned, the telemetry
\* collaborator not failing
TelemetryOk == caller = "service" /\ telemetry = "ok" /\ pc \in {"service_loop", "done"}

\* C28: during GuardrailsService.validate, the telemetry collaborator not
\* failing, every executed guardrail sends exactly one start notification
\* followed by exactly one end notification on every path of its validate,
\* the end of one guardrail precedes the start of the next, and a descriptor
\* filtered out by scope sends nothing.
C28_StartThenEnd ==
    TelemetryOk =>
        /\ \A n \in DOMAIN evals :
              /\ ~evals[n].raised
              /\ evals[n].calls = <<[event |-> "start", returned |-> TRUE],
                                    [event |-> "end", returned |-> TRUE]>>
              /\ InServiceScope(evals[n].idx)
              /\ \A m \in DOMAIN evals : m < n => evals[m].idx < evals[n].idx
        /\ \A j \in 1..(i - 1) : InServiceScope(j) => Evaluated(j)
        /\ Len(Emitted(evals)) = 2 * Cardinality({j \in 1..(i - 1) : InServiceScope(j)})
        /\ \A k \in DOMAIN Emitted(evals) :
              Emitted(evals)[k].event = IF k % 2 = 1 THEN "start" ELSE "end"

\* two guardrails were executed, one of them a HubGuardrail that ended with
\* an error in its details, and four notifications were sent
C28_Witness ==
    /\ TelemetryOk
    /\ pc = "done"
    /\ Len(guardrails) = 2
    /\ \E n \in DOMAIN evals : evals[n].kind = "HubGuardrail" /\ evals[n].details.error # ""
    /\ Len(Emitted(evals)) = 4


\* GuardrailsService.validate was called with the default registrations
DefaultService == caller = "service" /\ registry = DefaultRegistry

\* C29: for every descriptor list and scope, GuardrailsService.validate with
\* the default registrations does not raise and returns exactly its input
\* text; HubGuardrail.validate returns its input unchanged whatever the
\* delegate does (rewrites, reports invalid, is not resolved, raises).
C29_LocalPipelineReturnsInput ==
    /\ DefaultService =>
          /\ pc # "raised"
          /\ pc \in {"service_loop", "done"} => sanitized_text = text
          /\ pc = "done" => ret.text = text
    /\ caller = "service" =>
          \A n \in DOMAIN evals :
              evals[n].kind = "HubGuardrail" => evals[n].output = evals[n].input

\* the default pipeline returned after a HubGuardrail whose delegate
\* rewrote the text and reported it invalid
C29_Witness ==
    /\ DefaultService
    /\ pc = "done"
    /\ ret.text = text
    /\ \E n \in DOMAIN evals :
          /\ evals[n].kind = "HubGuardrail"
          /\ Len(evals[n].details.violations) > 0
          /\ evals[n].details.violations[1].error = "validator_failed"


\* the outcomes of a validator that did not get a result from a delegate
NoDelegateResult ==
    {"missing_pattern", "not_found", "compile_error", "local_match", "local_nomatch",
     "exception"}

\* a delegate result that carries a text
CarriesText(r) ==
    \/ r.shape = "tuple" /\ r.len >= 1 /\ r.first # None
    \/ r.shape = "dict" /\ \E k \in Range(TextKeys) : r.txt[k] \notin {Absent, None}
    \/ r.shape = "str"

\* C30: in run, a validator that ends without a result of a delegate (missing
\* pattern, not found, regex compile error, local regex fallback, exception
\* of the delegate) leaves the sanitized text as it was; the text changes
\* only when a delegate returned a result that carries a text.
C30_FailureKeepsText ==
    caller \in {"run", "http"} =>
        \A n \in DOMAIN evals :
            /\ evals[n].kind \in NoDelegateResult => evals[n].output = evals[n].input
            /\ evals[n].output # evals[n].input =>
                  Returned(evals[n]) /\ CarriesText(evals[n].out.result)

\* a delegate rewrote the text, and a later validator that failed without a
\* delegate result left the rewritten text in place
C30_Witness ==
    /\ caller = "run"
    /\ pc = "done"
    /\ \E m, n \in DOMAIN evals :
          /\ m < n
          /\ evals[m].output # evals[m].input
          /\ evals[n].kind \in NoDelegateResult
          /\ evals[n].flag
          /\ ret.text = evals[m].output

====
